---------------------------- MODULE Spec2Model ----------------------------
(***************************************************************************)
(* Risk & Return Assessment Engine (Aequitas backend).                     *)
(*                                                                         *)
(* Units.  Scores are kept in tenths of a point (25.0 -> 250), geographic  *)
(* coordinates in 1e-5 degree (35.0 -> 3500000), distances in tenths of a  *)
(* mile, time in days, weights in percent.                                 *)
(***************************************************************************)
EXTENDS Integers, Sequences, FiniteSets, TLC

VARIABLES
    cache,      \* rows of table climate_risk_cache (ClimateRiskCache)
    nextId,     \* next autoincrement id of climate_risk_cache
    now,        \* datetime.utcnow(), in days
    steps,      \* number of operations run so far
    last,       \* the value returned by the last service call
    hz,         \* the hazard calculator a run of the cache exercises
    writers,    \* concurrent _store_in_cache calls: position, arguments, looked-up row
    risk,       \* one calculate_composite_risk call: its arguments, then its result
    world,      \* the deals table and what the reference services answer per deal
    out,        \* the value returned (or the exception raised) by the last engine call
    assessments \* rows of table risk_assessments (RiskAssessmentModel)

climateVars == <<cache, nextId, now, steps, last, hz>>

engineVars == <<risk, world, out, assessments>>

vars == <<climateVars, writers, engineVars>>

(***************************************************************************)
(* Bounds of the model.                                                    *)
(***************************************************************************)
MaxSteps == 4

MaxClimateSteps == 3

(***************************************************************************)
(* Sample coordinates.  PIn and POut lie 0.00004 degree on either side of  *)
(* the longitude -114 that closes the California boxes; both round to the  *)
(* cache key (35.0, -114.0).  PSD is downtown San Diego.  NoCoords stands  *)
(* for a property whose coordinates could not be resolved (None, None).    *)
(***************************************************************************)
Points == {"PIn", "POut", "PSD", "NoCoords"}

Resolved(p) == p # "NoCoords"

Lat(p) ==
    CASE p = "PIn"  -> 3500000
      [] p = "POut" -> 3500000
      [] p = "PSD"  -> 3271570
      [] OTHER      -> 0

Lon(p) ==
    CASE p = "PIn"  -> -11400004
      [] p = "POut" -> -11399996
      [] p = "PSD"  -> -11716110
      [] OTHER      -> 0

Deg(d) == d * 100000

\* round(x, 4) on a coordinate held in 1e-5 degree (no sample point is a tie)
Round4(c) == ((c + 5) \div 10) * 10

Hazards ==
    <<"flood", "wildfire", "hurricane", "earthquake", "tornado",
      "extreme_heat", "sea_level_rise", "drought">>

HazardSet == {Hazards[i] : i \in 1..Len(Hazards)}

\* _load_config: config['cache_ttl_days'], days
CacheTtlDays(h) ==
    CASE h = "flood"          -> 365
      [] h = "wildfire"       -> 90
      [] h = "hurricane"      -> 365
      [] h = "earthquake"     -> 365
      [] h = "tornado"        -> 180
      [] h = "extreme_heat"   -> 30
      [] h = "sea_level_rise" -> 365
      [] h = "drought"        -> 7

\* _load_config: config['hazard_weights'], percent
HazardWeight(h) ==
    CASE h = "flood"          -> 20
      [] h = "wildfire"       -> 18
      [] h = "hurricane"      -> 15
      [] h = "earthquake"     -> 12
      [] h = "tornado"        -> 10
      [] h = "extreme_heat"   -> 10
      [] h = "sea_level_rise" -> 8
      [] h = "drought"        -> 7


(***************************************************************************)
(* Hazard calculators: the scoring part of each calculate_*_risk, for      *)
(* resolved coordinates la, lo.  Each yields [score, label].               *)
(***************************************************************************)
InBox(la, lo, latLo, latHi, lonLo, lonHi) ==
    /\ Deg(latLo) <= la /\ la <= Deg(latHi)
    /\ Deg(lonLo) <= lo /\ lo <= Deg(lonHi)

\* response of the FEMA NFHL identify request, as calculate_flood_risk sees it:
\* "fail" (timeout, HTTP error, bad JSON), "nozone" (no FLD_ZONE/ZONE
\* attribute), "zone" (a zone code; the default configuration maps none)
FloodOutcomes == {"fail", "nozone", "zone"}

FloodScore(outcome) ==
    IF outcome = "zone"
    THEN [score |-> (250 + 500) \div 2, label |-> "Zone"]
    ELSE [score |-> 100, label |-> "X"]

WildfireScore(la, lo) ==
    LET is_western       == Deg(-125) <= lo /\ lo <= Deg(-102)
        is_southwestern  == InBox(la, lo, 31, 42, -125, -102)
        is_california    == InBox(la, lo, 32, 42, -125, -114)
        is_pacific_nw    == InBox(la, lo, 42, 49, -125, -116)
        is_mountain_west == InBox(la, lo, 35, 49, -116, -102)
        base == IF is_california THEN 850
                ELSE IF is_pacific_nw THEN 700
                ELSE IF is_southwestern THEN 750
                ELSE IF is_mountain_west THEN 650
                ELSE IF is_western THEN 550
                ELSE 200
        level == IF base >= 900 THEN "Very High"
                 ELSE IF base >= 700 THEN "High"
                 ELSE IF base >= 400 THEN "Moderate"
                 ELSE IF base >= 200 THEN "Low"
                 ELSE "Very Low"
    IN  [score |-> base, label |-> level]

\* min over atlantic_points + gulf_points of calculate_distance_miles
\* (Haversine, r = 3956), evaluated at the sample coordinates
HurricaneMinDistance(p) ==
    CASE p = "PIn"  -> 10953
      [] p = "POut" -> 10953
      [] p = "PSD"  -> 12243
      [] OTHER      -> 0

HurricaneScore(p) ==
    LET d == HurricaneMinDistance(p)
        base == IF d < 250 THEN 950
                ELSE IF d < 500 THEN 750
                ELSE IF d < 1000 THEN 500
                ELSE IF d < 2000 THEN 250
                ELSE 50
        proximity == IF d < 250 THEN "Within 25 miles of coast"
                     ELSE IF d < 500 THEN "Within 50 miles of coast"
                     ELSE IF d < 1000 THEN "Within 100 miles of coast"
                     ELSE IF d < 2000 THEN "Within 200 miles of coast"
                     ELSE "More than 200 miles from coast"
        adjusted == IF Lat(p) > Deg(40) THEN (base * 6) \div 10
                    ELSE IF Lat(p) > Deg(35) THEN (base * 8) \div 10
                    ELSE base
    IN  [score |-> adjusted, label |-> proximity]

EarthquakeScore(la, lo) ==
    LET is_ca_coast    == InBox(la, lo, 32, 42, -125, -117)
        is_ca_inland   == InBox(la, lo, 32, 42, -117, -114)
        is_pacific_nw  == InBox(la, lo, 42, 49, -125, -116)
        is_nevada_utah == InBox(la, lo, 35, 42, -120, -109)
        is_new_madrid  == InBox(la, lo, 35, 40, -92, -87)
    IN  IF is_ca_coast THEN [score |-> 850, label |-> "Very High"]
        ELSE IF is_pacific_nw THEN [score |-> 750, label |-> "High"]
        ELSE IF is_ca_inland THEN [score |-> 650, label |-> "Moderate-High"]
        ELSE IF is_nevada_utah THEN [score |-> 450, label |-> "Moderate"]
        ELSE IF is_new_madrid THEN [score |-> 350, label |-> "Low-Moderate"]
        ELSE [score |-> 100, label |-> "Low"]

TornadoScore(la, lo) ==
    LET is_tornado_alley == InBox(la, lo, 33, 43, -103, -95)
        is_dixie_alley   == InBox(la, lo, 31, 37, -95, -84)
        is_midwest_high  == InBox(la, lo, 36, 43, -95, -84)
        is_eastern       == InBox(la, lo, 30, 42, -84, -75)
        is_western       == lo < Deg(-103)
        is_northeast     == la > Deg(42) /\ lo > Deg(-80)
    IN  IF is_tornado_alley THEN [score |-> 850, label |-> "Very High"]
        ELSE IF is_dixie_alley THEN [score |-> 750, label |-> "High"]
        ELSE IF is_midwest_high THEN [score |-> 600, label |-> "Moderate-High"]
        ELSE IF is_eastern THEN [score |-> 350, label |-> "Moderate"]
        ELSE IF is_western \/ is_northeast THEN [score |-> 100, label |-> "Low"]
        ELSE [score |-> 200, label |-> "Low-Moderate"]

ExtremeHeatScore(la, lo) ==
    LET is_southwest_desert == InBox(la, lo, 32, 37, -117, -102)
        is_deep_south       == InBox(la, lo, 28, 35, -107, -80)
        is_southern_plains  == InBox(la, lo, 30, 37, -103, -93)
        is_mid_latitude     == Deg(37) <= la /\ la <= Deg(42)
        is_northern         == la > Deg(42)
        zone == IF is_southwest_desert THEN [score |-> 900, label |-> "Very High"]
                ELSE IF is_deep_south THEN [score |-> 700, label |-> "High"]
                ELSE IF is_southern_plains
                     THEN [score |-> 600, label |-> "Moderate-High"]
                ELSE IF is_mid_latitude THEN [score |-> 350, label |-> "Moderate"]
                ELSE IF is_northern THEN [score |-> 150, label |-> "Low"]
                ELSE [score |-> 300, label |-> "Low-Moderate"]
        adjusted == IF InBox(la, lo, 32, 42, -125, -115)
                    THEN (zone.score * 8) \div 10
                    ELSE IF InBox(la, lo, 38, 45, -80, -70)
                         THEN (zone.score * 9) \div 10
                         ELSE zone.score
    IN  [score |-> adjusted, label |-> zone.label]

\* min over atlantic_coast + gulf_coast + pacific_coast of
\* calculate_distance_miles, evaluated at the sample coordinates
SeaLevelMinDistance(p) ==
    CASE p = "PIn"  -> 2426
      [] p = "POut" -> 2426
      [] p = "PSD"  -> 25
      [] OTHER      -> 0

SeaLevelRiseScore(p) ==
    LET d == SeaLevelMinDistance(p)
    IN  IF d < 20 THEN [score |-> 950, label |-> "Very High"]
        ELSE IF d < 50 THEN [score |-> 750, label |-> "High"]
        ELSE IF d < 100 THEN [score |-> 500, label |-> "Moderate"]
        ELSE IF d < 250 THEN [score |-> 200, label |-> "Low"]
        ELSE [score |-> 0, label |-> "N/A"]

DroughtScore(la, lo) ==
    LET is_southwest_desert == InBox(la, lo, 32, 40, -120, -102)
        is_california       == InBox(la, lo, 32, 42, -125, -114)
        is_great_plains     == InBox(la, lo, 35, 45, -103, -95)
        is_southeast        == InBox(la, lo, 30, 37, -95, -75)
        is_pacific_nw       == InBox(la, lo, 42, 49, -125, -116)
        is_northeast        == InBox(la, lo, 38, 47, -80, -67)
    IN  IF is_southwest_desert THEN [score |-> 850, label |-> "Very High"]
        ELSE IF is_california THEN [score |-> 700, label |-> "High"]
        ELSE IF is_great_plains THEN [score |-> 550, label |-> "Moderate-High"]
        ELSE IF is_southeast THEN [score |-> 350, label |-> "Moderate"]
        ELSE IF is_pacific_nw \/ is_northeast THEN [score |-> 150, label |-> "Low"]
        ELSE [score |-> 300, label |-> "Low-Moderate"]

\* the try-block of calculate_<h>_risk for resolved coordinates
HazardScore(h, p, outcome) ==
    CASE h = "flood"          -> FloodScore(outcome)
      [] h = "wildfire"       -> WildfireScore(Lat(p), Lon(p))
      [] h = "hurricane"      -> HurricaneScore(p)
      [] h = "earthquake"     -> EarthquakeScore(Lat(p), Lon(p))
      [] h = "tornado"        -> TornadoScore(Lat(p), Lon(p))
      [] h = "extreme_heat"   -> ExtremeHeatScore(Lat(p), Lon(p))
      [] h = "sea_level_rise" -> SeaLevelRiseScore(p)
      [] h = "drought"        -> DroughtScore(Lat(p), Lon(p))

\* the except-block of calculate_<h>_risk: the default score of each hazard
FallbackScore(h) ==
    CASE h = "flood"          -> 250
      [] h = "wildfire"       -> 300
      [] h = "hurricane"      -> 150
      [] h = "earthquake"     -> 150
      [] h = "tornado"        -> 200
      [] h = "extreme_heat"   -> 250
      [] h = "sea_level_rise" -> 0
      [] h = "drought"        -> 250

\* an except-block that reports no data source for any hazard
FallbackSourcePlain(h) == "N/A"

\* data_source of the except-block result
FallbackSource(h) == IF h = "flood" THEN "FEMA NFHL (unavailable)" ELSE "N/A"

\* data_source of a freshly computed result
FreshSource(h) ==
    CASE h = "flood"          -> "FEMA NFHL"
      [] h = "wildfire"       -> "Geographic heuristics (simplified)"
      [] h = "hurricane"      -> "Geographic model (simplified)"
      [] h = "earthquake"     -> "Geographic seismic model (simplified)"
      [] h = "tornado"        -> "Geographic tornado model (simplified)"
      [] h = "extreme_heat"   -> "Geographic climate model (simplified)"
      [] h = "sea_level_rise" -> "Geographic coastal model (simplified)"
      [] h = "drought"        -> "Geographic climate model (simplified)"

\* data_source handed to _store_in_cache
StoredSource(h) ==
    CASE h = "flood"    -> "FEMA NFHL"
      [] h = "wildfire" -> "Geographic heuristics"
      [] OTHER          -> "Geographic model"


(***************************************************************************)
(* The climate cache (table climate_risk_cache).                           *)
(***************************************************************************)
NoRow == [id |-> 0]

\* None where a score is expected
NoScore == -1

NoTime == -1

\* ClimateRiskCache.query.filter_by(latitude, longitude, hazard_type)
KeyRows(c, la, lo, h) ==
    {e \in c : e.lat = la /\ e.lon = lo /\ e.hazard = h}

\* .first() of that query when the statement runs alone: the key holds at
\* most one row in a sequential run, so the lowest id is the row returned
First(c, la, lo, h) ==
    IF KeyRows(c, la, lo, h) = {}
    THEN NoRow
    ELSE CHOOSE e \in KeyRows(c, la, lo, h) :
            \A f \in KeyRows(c, la, lo, h) : e.id <= f.id

\* is_expired with the comparison off by one at the boundary
IsExpiredAtBoundary(e, t) ==
    IF e.expires_at = NoTime THEN FALSE ELSE t >= e.expires_at

\* ClimateRiskCache.is_expired at time t
IsExpired(e, t) ==
    IF e.expires_at = NoTime THEN FALSE ELSE t > e.expires_at

\* _get_cached_risk that forgets to delete the expired row
GetCachedRiskNoEvict(c, p, h, t) ==
    IF ~Resolved(p)
    THEN [hit |-> FALSE, row |-> NoRow, cache |-> c]
    ELSE LET cached == First(c, Round4(Lat(p)), Round4(Lon(p)), h)
         IN  IF cached # NoRow /\ ~IsExpired(cached, t)
             THEN [hit |-> TRUE, row |-> cached, cache |-> c]
             ELSE [hit |-> FALSE, row |-> NoRow, cache |-> c]

\* _get_cached_risk at time t on cache c: [hit, row, cache]; round(None, 4)
\* raises inside the try and the except returns None
GetCachedRisk(c, p, h, t) ==
    IF ~Resolved(p)
    THEN [hit |-> FALSE, row |-> NoRow, cache |-> c]
    ELSE LET cached == First(c, Round4(Lat(p)), Round4(Lon(p)), h)
         IN  IF cached # NoRow /\ ~IsExpired(cached, t)
             THEN [hit |-> TRUE, row |-> cached, cache |-> c]
             ELSE IF cached # NoRow /\ IsExpired(cached, t)
                  THEN [hit |-> FALSE, row |-> NoRow, cache |-> c \ {cached}]
                  ELSE [hit |-> FALSE, row |-> NoRow, cache |-> c]

\* the existing row after the update branch of _store_in_cache
UpdatedRow(existing, p, score, source, ttl, t) ==
    [existing EXCEPT !.score = score, !.details = p, !.source = source,
                     !.created_at = t, !.expires_at = t + ttl]

\* the row built by the insert branch of _store_in_cache
NewRow(id, p, h, score, source, ttl, t) ==
    [id |-> id, lat |-> Round4(Lat(p)), lon |-> Round4(Lon(p)), hazard |-> h,
     score |-> score, details |-> p, source |-> source,
     created_at |-> t, expires_at |-> t + ttl]

\* _store_in_cache without the lookup of the existing entry: always inserts
StoreInCacheAlwaysInsert(c, nid, p, h, score, source, ttl, t) ==
    IF ~Resolved(p)
    THEN [cache |-> c, nextId |-> nid]
    ELSE [cache |-> c \cup {NewRow(nid, p, h, score, source, ttl, t)},
          nextId |-> nid + 1]

\* _store_in_cache at time t on cache c with next id nid: [cache, nextId]
StoreInCache(c, nid, p, h, score, source, ttl, t) ==
    IF ~Resolved(p)
    THEN [cache |-> c, nextId |-> nid]
    ELSE LET existing == First(c, Round4(Lat(p)), Round4(Lon(p)), h)
         IN  IF existing # NoRow
             THEN [cache |-> (c \ {existing})
                               \cup {UpdatedRow(existing, p, score, source, ttl, t)},
                   nextId |-> nid]
             ELSE [cache |-> c \cup {NewRow(nid, p, h, score, source, ttl, t)},
                   nextId |-> nid + 1]

\* the dict _get_cached_risk returns on a hit
CachedResult(h, p, row) ==
    [hazard |-> h, point |-> p, score |-> row.score, cached |-> "True",
     source |-> row.source, label |-> "Absent", error |-> FALSE,
     computed |-> FALSE, requests |-> 0, cached_at |-> row.created_at]

\* an except-block that asks the flood-zone service a second time before it
\* gives up
FallbackResultAfterRetry(h, p, requests) ==
    [hazard |-> h, point |-> p, score |-> FallbackScore(h), cached |-> "Absent",
     source |-> FallbackSource(h), label |-> "Unknown", error |-> TRUE,
     computed |-> FALSE, requests |-> requests + 1, cached_at |-> NoTime]

\* the dict of the except-block of calculate_<h>_risk
FallbackResult(h, p, requests) ==
    [hazard |-> h, point |-> p, score |-> FallbackScore(h), cached |-> "Absent",
     source |-> FallbackSource(h), label |-> "Unknown", error |-> TRUE,
     computed |-> FALSE, requests |-> requests, cached_at |-> NoTime]

\* the dict of the try-block of calculate_<h>_risk
FreshResult(h, p, sc, requests) ==
    [hazard |-> h, point |-> p, score |-> sc.score, cached |-> "False",
     source |-> FreshSource(h), label |-> sc.label, error |-> FALSE,
     computed |-> TRUE, requests |-> requests, cached_at |-> NoTime]

\* calculate_<h>_risk whose except-block stores the default it returns
CalculateHazardRiskCachingFallback(st, h, p, outcome, t) ==
    LET got == GetCachedRisk(st.cache, p, h, t)
        asked == IF h = "flood" /\ Resolved(p) THEN 1 ELSE 0
        sc == IF ~Resolved(p) \/ (h = "flood" /\ outcome = "fail")
              THEN [score |-> FallbackScore(h), label |-> "Unknown"]
              ELSE HazardScore(h, p, outcome)
        stored == StoreInCache(got.cache, st.nextId, p, h, sc.score,
                               StoredSource(h), CacheTtlDays(h), t)
    IN  IF got.hit
        THEN [cache |-> st.cache, nextId |-> st.nextId,
              result |-> CachedResult(h, p, got.row)]
        ELSE [cache |-> stored.cache, nextId |-> stored.nextId,
              result |-> IF ~Resolved(p) \/ (h = "flood" /\ outcome = "fail")
                         THEN FallbackResult(h, p, asked)
                         ELSE FreshResult(h, p, sc, asked)]

\* calculate_<h>_risk(latitude, longitude) at time t on st = [cache, nextId];
\* outcome is what the flood-zone service answers if it is asked.
\* Yields [cache, nextId, result].
CalculateHazardRisk(st, h, p, outcome, t) ==
    LET got == GetCachedRisk(st.cache, p, h, t)
        asked == IF h = "flood" /\ Resolved(p) THEN 1 ELSE 0
    IN  IF got.hit
        THEN [cache |-> st.cache, nextId |-> st.nextId,
              result |-> CachedResult(h, p, got.row)]
        ELSE IF ~Resolved(p) \/ (h = "flood" /\ outcome = "fail")
             THEN [cache |-> got.cache, nextId |-> st.nextId,
                   result |-> FallbackResult(h, p, asked)]
             ELSE LET sc == HazardScore(h, p, outcome)
                      stored == StoreInCache(got.cache, st.nextId, p, h, sc.score,
                                             StoredSource(h), CacheTtlDays(h), t)
                  IN  [cache |-> stored.cache, nextId |-> stored.nextId,
                       result |-> FreshResult(h, p, sc, asked)]


(***************************************************************************)
(* calculate_composite_climate_risk                                        *)
(***************************************************************************)
RECURSIVE RunHazards(_, _, _, _, _, _)
\* the eight calculator calls, in order, threading the cache through them
RunHazards(i, st, results, p, outcome, t) ==
    IF i > Len(Hazards)
    THEN [cache |-> st.cache, nextId |-> st.nextId, hazards |-> results]
    ELSE LET r == CalculateHazardRisk(st, Hazards[i], p, outcome, t)
         IN  RunHazards(i + 1, [cache |-> r.cache, nextId |-> r.nextId],
                        Append(results, r.result), p, outcome, t)

RECURSIVE WeightedSum(_, _)
\* sum(hazards[h]['score'] * hazard_weights[h]), in thousandths of a point
WeightedSum(results, i) ==
    IF i > Len(results)
    THEN 0
    ELSE results[i].score * HazardWeight(results[i].hazard)
         + WeightedSum(results, i + 1)

\* risk level of calculate_composite_climate_risk (raw in thousandths)
ClimateRiskLevel(raw) ==
    IF raw < 25000 THEN "Low"
    ELSE IF raw < 50000 THEN "Medium"
    ELSE IF raw < 75000 THEN "High"
    ELSE "Very High"

\* round(x, 1) of a float whose exact value is raw thousandths, in tenths:
\* at an exact tie the binary value may lie on either side
RoundTenths(raw) ==
    LET q == raw \div 100
        r == raw % 100
    IN  IF r < 50 THEN {q} ELSE IF r > 50 THEN {q + 1} ELSE {q, q + 1}

\* the dict calculate_composite_climate_risk returns from its try-block
CompositeClimateResult(p, results, rounded) ==
    [op |-> "composite", point |-> p, hazards |-> results,
     raw |-> WeightedSum(results, 1),
     climate_risk_score |-> rounded,
     climate_risk_level |-> ClimateRiskLevel(WeightedSum(results, 1)),
     error |-> FALSE]

(***************************************************************************)
(* Sequential climate service: one call at a time.  Every query filters on *)
(* hazard_type, so rows of different hazards never meet in a single        *)
(* calculator: a run of Spec exercises one calculator, hz, on all sample   *)
(* coordinates; SpecClimate runs the eight together.                       *)
(***************************************************************************)
IdleWriter == [pc |-> "idle"]

Writers == {1, 2}

\* an empty cache, the clock at its origin, no call made or under way
ClimateIdle ==
    /\ cache = {}
    /\ nextId = 1
    /\ now = 0
    /\ steps = 0
    /\ last = [op |-> "none"]
    /\ writers = [w \in Writers |-> IdleWriter]

\* no engine call made
EngineIdle ==
    /\ risk = [phase |-> "idle"]
    /\ world = [kind |-> "none"]
    /\ out = [op |-> "none"]
    /\ assessments = {}

InitCache ==
    /\ ClimateIdle
    /\ EngineIdle

Init ==
    /\ InitCache
    /\ hz \in HazardSet

\* the instants at which is_expired can change its answer for a stored row
TickTargets ==
    {t \in {e.expires_at : e \in cache} \cup {e.expires_at + 1 : e \in cache} :
        t > now}

\* time passes between two calls
Tick(bound) ==
    /\ steps < bound
    /\ \E t \in TickTargets : now' = t
    /\ steps' = steps + 1
    /\ last' = [op |-> "tick"]
    /\ UNCHANGED <<cache, nextId, hz, writers, engineVars>>

\* one call of calculate_<h>_risk
CalculateHazard(h, p, outcome) ==
    /\ steps < MaxSteps
    /\ LET r == CalculateHazardRisk([cache |-> cache, nextId |-> nextId],
                                    h, p, outcome, now)
       IN  /\ cache' = r.cache
           /\ nextId' = r.nextId
           /\ last' = [op |-> "hazard", result |-> r.result]
    /\ steps' = steps + 1
    /\ UNCHANGED <<now, hz, writers, engineVars>>

\* one direct call of _get_cached_risk
ReadCache(h, p) ==
    /\ steps < MaxSteps
    /\ LET got == GetCachedRisk(cache, p, h, now)
       IN  /\ cache' = got.cache
           /\ last' = [op |-> "read", hazard |-> h, point |-> p,
                       hit |-> got.hit, row |-> got.row]
    /\ steps' = steps + 1
    /\ UNCHANGED <<nextId, now, hz, writers, engineVars>>

Next ==
    \/ Tick(MaxSteps)
    \/ \E p \in Points : ReadCache(hz, p)
    \/ \E p \in Points :
          \/ /\ hz = "flood"
             /\ \E outcome \in FloodOutcomes : CalculateHazard(hz, p, outcome)
          \/ /\ hz # "flood"
             /\ CalculateHazard(hz, p, "unasked")

Spec == Init /\ [][Next]_vars

\* scores a direct caller hands to _store_in_cache, in tenths of a point
StoredScores == {100, 600}

\* one direct call of _store_in_cache
WriteCache(h, p, score) ==
    /\ steps < MaxSteps
    /\ LET stored == StoreInCache(cache, nextId, p, h, score, StoredSource(h),
                                  CacheTtlDays(h), now)
       IN  /\ cache' = stored.cache
           /\ nextId' = stored.nextId
    /\ last' = [op |-> "store",
                result |-> [hazard |-> h, point |-> p, score |-> score]]
    /\ steps' = steps + 1
    /\ UNCHANGED <<now, hz, writers, engineVars>>

\* sequential hazard calculations, cache reads and cache writes
NextCache ==
    \/ Next
    \/ \E p \in Points, score \in StoredScores : WriteCache(hz, p, score)

SpecCache == Init /\ [][NextCache]_vars

InitClimate ==
    /\ InitCache
    /\ hz = "all"

\* one call of calculate_composite_climate_risk
CalculateCompositeClimate(p, outcome) ==
    /\ steps < MaxClimateSteps
    /\ LET r == RunHazards(1, [cache |-> cache, nextId |-> nextId], <<>>,
                           p, outcome, now)
       IN  /\ cache' = r.cache
           /\ nextId' = r.nextId
           /\ \E rounded \in RoundTenths(WeightedSum(r.hazards, 1)) :
                 last' = CompositeClimateResult(p, r.hazards, rounded)
    /\ steps' = steps + 1
    /\ UNCHANGED <<now, hz, writers, engineVars>>

NextClimate ==
    \/ Tick(MaxClimateSteps)
    \/ \E p \in Points, outcome \in FloodOutcomes :
          CalculateCompositeClimate(p, outcome)

SpecClimate == InitClimate /\ [][NextClimate]_vars


(***************************************************************************)
(* Properties of the climate cache (Spec).                                 *)
(***************************************************************************)
\* the step is one call of a hazard calculator on resolved coordinates
HazardCall ==
    /\ steps' = steps + 1
    /\ last'.op = "hazard"
    /\ Resolved(last'.result.point)

\* rows the call of this step finds under its key, before the call
CallRows ==
    KeyRows(cache, Round4(Lat(last'.result.point)),
            Round4(Lon(last'.result.point)), last'.result.hazard)

\* rows under the key of the call, after the call
CallRowsAfter ==
    KeyRows(cache', Round4(Lat(last'.result.point)),
            Round4(Lon(last'.result.point)), last'.result.hazard)

\* a request made while now <= t + TTL(hazard) returns the stored score with
\* cached=true and does not recompute
HitWithinTtl ==
    \A e \in CallRows :
        now <= e.created_at + CacheTtlDays(e.hazard)
        => /\ last'.result.cached = "True"
           /\ last'.result.score = e.score
           /\ ~last'.result.computed
           /\ last'.result.requests = 0
           /\ cache' = cache

\* the score of the call is computed anew (cached=false) and stored again
RecomputedAndStored ==
    /\ last'.result.cached = "False"
    /\ last'.result.computed
    /\ \E f \in CallRowsAfter :
          /\ f.score = last'.result.score
          /\ f.created_at = now
          /\ f.expires_at = now + CacheTtlDays(f.hazard)

\* C1 as claimed: within the TTL of a stored score every request for the key
\* is served the same score with cached=true and without recomputation; the
\* first request after t + TTL recomputes (cached=false) and stores again.
C1_Original ==
    [][HazardCall =>
          /\ HitWithinTtl
          /\ \A e \in CallRows :
                now > e.created_at + CacheTtlDays(e.hazard)
                => RecomputedAndStored]_vars

\* C1 (amended): as C1_Original, except that a request after expiry whose
\* flood-zone lookup fails returns the default result, without a cached flag,
\* and stores nothing; every other request after expiry recomputes
\* (cached=false) and stores the score again.
C1_CacheHitExpiry ==
    [][HazardCall =>
          /\ HitWithinTtl
          /\ \A e \in CallRows :
                now > e.created_at + CacheTtlDays(e.hazard)
                => IF last'.result.error
                   THEN /\ last'.result.hazard = "flood"
                        /\ last'.result.requests = 1
                        /\ last'.result.cached = "Absent"
                        /\ CallRowsAfter = {}
                   ELSE RecomputedAndStored]_vars

\* C1 witness: a request at the very end of the TTL window was served from
\* the cache
C1_Witness ==
    /\ last.op = "hazard"
    /\ last.result.cached = "True"
    /\ \E e \in cache :
          /\ e.hazard = last.result.hazard
          /\ e.lat = Round4(Lat(last.result.point))
          /\ e.lon = Round4(Lon(last.result.point))
          /\ now = e.created_at + CacheTtlDays(e.hazard)
          /\ now > 0

\* the step is one direct call of _get_cached_risk on resolved coordinates
ReadCall ==
    /\ steps' = steps + 1
    /\ last'.op = "read"
    /\ Resolved(last'.point)

\* C2: a cache read that finds a row whose expiry time has passed returns a
\* miss and deletes the row; a calculator call that finds one does not serve
\* it, and the row is gone before the fresh score is stored: what the key
\* holds afterwards is a newly inserted row, not the old one updated.
C2_ExpiredNeverServed ==
    [][/\ ReadCall =>
            \A e \in KeyRows(cache, Round4(Lat(last'.point)),
                             Round4(Lon(last'.point)), last'.hazard) :
                now > e.expires_at
                => /\ ~last'.hit
                   /\ \A f \in cache' : f.id # e.id
       /\ HazardCall =>
            \A e \in CallRows :
                now > e.expires_at
                => /\ last'.result.cached # "True"
                   /\ \A f \in cache' : f.id # e.id
                   /\ \A f \in CallRowsAfter : f.id = nextId]_vars

\* C2 witness: an expired row was evicted and the recomputed score inserted
\* as a new row
C2_Witness ==
    /\ last.op = "hazard"
    /\ last.result.cached = "False"
    /\ nextId > 2
    /\ \E e \in cache :
          /\ e.id = nextId - 1
          /\ e.created_at = now
          /\ e.hazard = last.result.hazard
          /\ e.lat = Round4(Lat(last.result.point))
          /\ e.lon = Round4(Lon(last.result.point))
    /\ \A e \in cache : e.id = nextId - 1

\* C3: for a calculator whose score is a function of the coordinates alone,
\* the score served from the cache equals the score a fresh computation
\* returns for the requested coordinates.
C3_CacheTransparent ==
    (/\ last.op = "hazard"
     /\ last.result.hazard # "flood"
     /\ last.result.cached = "True")
    => last.result.score
         = HazardScore(last.result.hazard, last.result.point, "unasked").score


(***************************************************************************)
(* Concurrent writers: two _store_in_cache calls, each with its own        *)
(* session.  A call is a SELECT (the lookup of the existing row), then an  *)
(* UPDATE by primary key or an INSERT, committed.  The table has an index  *)
(* on (latitude, longitude, hazard_type) but no unique constraint.         *)
(***************************************************************************)
StoreHazards == {"flood", "drought"}

StoreScores == {100, 375}

InitStores ==
    /\ InitCache
    /\ hz = "all"

\* _store_in_cache is entered with its arguments
StoreBegin(w, p, h, score) ==
    /\ writers[w].pc = "idle"
    /\ writers' = [writers EXCEPT ![w] =
                      [pc |-> "lookup", point |-> p, hazard |-> h,
                       score |-> score, existing |-> NoRow]]
    /\ UNCHANGED <<climateVars, engineVars>>

\* existing = ClimateRiskCache.query.filter_by(...).first(): any row of the
\* key (LIMIT 1 without ORDER BY); round(None, 4) raises and the call ends
StoreLookup(w) ==
    /\ writers[w].pc = "lookup"
    /\ IF ~Resolved(writers[w].point)
       THEN writers' = [writers EXCEPT ![w].pc = "done"]
       ELSE LET rows == KeyRows(cache, Round4(Lat(writers[w].point)),
                                Round4(Lon(writers[w].point)), writers[w].hazard)
            IN  \E e \in (IF rows = {} THEN {NoRow} ELSE rows) :
                   writers' = [writers EXCEPT ![w].pc = "write",
                                              ![w].existing = e]
    /\ UNCHANGED <<climateVars, engineVars>>

\* the update-or-insert and db.session.commit()
StoreWrite(w) ==
    /\ writers[w].pc = "write"
    /\ LET a == writers[w]
       IN  IF a.existing # NoRow
           THEN /\ cache' = {e \in cache : e.id # a.existing.id}
                              \cup {UpdatedRow(a.existing, a.point, a.score,
                                               StoredSource(a.hazard),
                                               CacheTtlDays(a.hazard), now)}
                /\ nextId' = nextId
           ELSE /\ cache' = cache
                              \cup {NewRow(nextId, a.point, a.hazard, a.score,
                                           StoredSource(a.hazard),
                                           CacheTtlDays(a.hazard), now)}
                /\ nextId' = nextId + 1
    /\ writers' = [writers EXCEPT ![w].pc = "done"]
    /\ UNCHANGED <<now, steps, last, hz, engineVars>>

NextStores ==
    \/ \E w \in Writers, p \in Points, h \in StoreHazards, score \in StoreScores :
          StoreBegin(w, p, h, score)
    \/ \E w \in Writers : StoreLookup(w)
    \/ \E w \in Writers : StoreWrite(w)

SpecStores == InitStores /\ [][NextStores]_vars

\* both writers wrote the same key and have finished
BothStoredSameKey ==
    /\ \A w \in Writers : writers[w].pc = "done" /\ Resolved(writers[w].point)
    /\ writers[1].hazard = writers[2].hazard
    /\ Round4(Lat(writers[1].point)) = Round4(Lat(writers[2].point))
    /\ Round4(Lon(writers[1].point)) = Round4(Lon(writers[2].point))

\* C4 as claimed: once two concurrent _store_in_cache calls on the same key
\* have both finished, the cache holds exactly one row for the key, and the
\* row carries the values of one of the two writers.
C4_ConcurrentStoreOneRow ==
    BothStoredSameKey
    => LET rows == KeyRows(cache, Round4(Lat(writers[1].point)),
                           Round4(Lon(writers[1].point)), writers[1].hazard)
       IN  /\ Cardinality(rows) = 1
           /\ \A e \in rows :
                 \E w \in Writers :
                    e.score = writers[w].score /\ e.details = writers[w].point


(***************************************************************************)
(* Properties of calculate_composite_climate_risk (SpecClimate).           *)
(***************************************************************************)
\* C7 as claimed: for unresolved coordinates calculate_composite_climate_risk
\* returns a result whose climate_risk_level is "Unknown".
C7_UnresolvedIsUnknown ==
    (last.op = "composite" /\ ~Resolved(last.point))
    => last.climate_risk_level = "Unknown"

\* C16: for coordinates that calculate_hurricane_risk classifies as 'More
\* than 200 miles from coast' the hurricane score is at most 5 and
\* calculate_sea_level_rise_risk returns score 0 with vulnerability 'N/A'.
C16_InlandForBothCalculators ==
    (/\ last.op = "composite"
     /\ last.hazards[3].hazard = "hurricane"
     /\ last.hazards[3].computed
     /\ last.hazards[3].label = "More than 200 miles from coast"
     /\ last.hazards[7].hazard = "sea_level_rise"
     /\ last.hazards[7].computed)
    => /\ last.hazards[3].score <= 50
       /\ last.hazards[7].score = 0
       /\ last.hazards[7].label = "N/A"

\* the flood-zone service was asked during the last composite and failed
FloodLookupFailed ==
    /\ last.op = "composite"
    /\ last.hazards[1].hazard = "flood"
    /\ last.hazards[1].requests = 1
    /\ last.hazards[1].error

\* C9: when the flood-zone lookup fails, calculate_flood_risk returns the
\* default 25.0 with flood_zone "Unknown" and source "FEMA NFHL (unavailable)",
\* and the composite is still produced from all eight hazard scores.
C9_FloodFailureDegrades ==
    FloodLookupFailed
    => /\ last.hazards[1].score = 250
       /\ last.hazards[1].label = "Unknown"
       /\ last.hazards[1].source = "FEMA NFHL (unavailable)"
       /\ ~last.error
       /\ last.climate_risk_level \in {"Low", "Medium", "High", "Very High"}
       /\ Len(last.hazards) = 8
       /\ {last.hazards[i].hazard : i \in 1..8} = HazardSet
       /\ last.raw = 250 * HazardWeight("flood")
                     + WeightedSum(Tail(last.hazards), 1)
       /\ last.climate_risk_score \in RoundTenths(last.raw)

\* C9 witness: a composite over freshly computed hazards whose flood lookup
\* failed
C9_Witness ==
    /\ FloodLookupFailed
    /\ \A i \in 2..8 : last.hazards[i].computed


\* the step is one call of calculate_flood_risk, on any coordinates
FloodCall ==
    /\ steps' = steps + 1
    /\ last'.op = "hazard"
    /\ last'.result.hazard = "flood"

\* before the call the cache holds a row for the key of the call that has not
\* expired; None coordinates have no key
FreshEntryExists ==
    /\ Resolved(last'.result.point)
    /\ \E e \in CallRows : now <= e.expires_at

\* the except-block's dict of calculate_flood_risk
FloodDefault ==
    /\ last'.result.error
    /\ last'.result.score = 250
    /\ last'.result.label = "Unknown"
    /\ last'.result.source = "FEMA NFHL (unavailable)"

\* C22 as claimed: one calculate_flood_risk call contacts the flood-zone
\* service zero times when a non-expired cache entry exists and exactly once
\* otherwise, and a failed request leads to the default result without a
\* second request.
C22_OnceOtherwise ==
    [][FloodCall
       => /\ (FreshEntryExists => last'.result.requests = 0)
          /\ (~FreshEntryExists => last'.result.requests = 1)
          /\ (last'.result.error
              => FloodDefault /\ last'.result.requests = 1)]_vars

\* C22 amended: one calculate_flood_risk call contacts the flood-zone service
\* at most once: zero times when a non-expired cache entry exists or when the
\* coordinates are None (the request parameters cannot be built), exactly once
\* on a miss with coordinates; a call that ends in the default result has made
\* no second request.
C22_NoRetry ==
    [][FloodCall
       => /\ last'.result.requests <= 1
          /\ (FreshEntryExists => last'.result.requests = 0)
          /\ (~Resolved(last'.result.point) => last'.result.requests = 0)
          /\ (Resolved(last'.result.point) /\ ~FreshEntryExists
              => last'.result.requests = 1)
          /\ (last'.result.error
              => /\ FloodDefault
                 /\ last'.result.requests
                    = IF Resolved(last'.result.point) THEN 1 ELSE 0)]_vars

\* C22 witness: a flood call on coordinates whose single request failed and
\* that returned the default result
C22_Witness ==
    /\ last.op = "hazard"
    /\ last.result.hazard = "flood"
    /\ Resolved(last.result.point)
    /\ last.result.error
    /\ last.result.requests = 1
    /\ last.result.source = "FEMA NFHL (unavailable)"


\* no two rows of cache c share a (rounded lat, rounded lon, hazard) key
OneRowPerKey(c) ==
    \A e \in c : \A f \in c :
        (e.lat = f.lat /\ e.lon = f.lon /\ e.hazard = f.hazard) => e = f

\* the step is one direct call of _store_in_cache on a key that has a row
StoreOnExistingKey ==
    /\ steps' = steps + 1
    /\ last'.op = "store"
    /\ Resolved(last'.result.point)
    /\ CallRows # {}

\* the row of the key keeps its identity and takes the new score, details,
\* source, creation time and expiry time; no row is added
UpdatedInPlace ==
    /\ Cardinality(cache') = Cardinality(cache)
    /\ nextId' = nextId
    /\ \A e \in CallRows :
          CallRowsAfter
          = {[e EXCEPT !.score = last'.result.score,
                       !.details = last'.result.point,
                       !.source = StoredSource(e.hazard),
                       !.created_at = now,
                       !.expires_at = now + CacheTtlDays(e.hazard)]}
    /\ cache' \ CallRowsAfter = cache \ CallRows

\* C23: after any sequence of sequential hazard calculations, cache reads and
\* cache writes the cache holds at most one entry per (rounded lat, rounded lon,
\* hazard) key; a store on an existing key updates that entry in place and
\* never adds a second one.
C23_OneEntryPerKey ==
    /\ [](OneRowPerKey(cache))
    /\ [][StoreOnExistingKey => UpdatedInPlace]_vars

\* C23 witness: a store has rewritten a row that is older than another row
\* (smaller id) and now carries the later creation time, so it was updated in
\* place, and it is the only row of its key
C23_Witness ==
    /\ last.op = "store"
    /\ Resolved(last.result.point)
    /\ \E e \in cache : \E f \in cache :
          /\ e.details = last.result.point
          /\ e.hazard = last.result.hazard
          /\ e.score = last.result.score
          /\ e.id < f.id
          /\ e.created_at > f.created_at
          /\ e.created_at = now

\* the step is one call of a hazard calculator that ended in its
\* except-block
FallbackCall ==
    /\ steps' = steps + 1
    /\ last'.op = "hazard"
    /\ last'.result.error

\* the next call for the same key, whatever the flood-zone service answers,
\* is not served from the cache
NextCallComputes ==
    \A outcome \in FloodOutcomes :
        LET r == CalculateHazardRisk([cache |-> cache', nextId |-> nextId'],
                                     last'.result.hazard, last'.result.point,
                                     outcome, now')
        IN  /\ r.result.cached # "True"
            /\ last'.result.hazard = "flood" /\ Resolved(last'.result.point)
               => r.result.requests = 1

\* C24: a degraded result is never cached: a hazard calculation that ends in
\* its failure fallback (flood: 25.0, 'FEMA NFHL (unavailable)') creates and
\* modifies no cache row (the only row it can remove is the expired row of
\* its key, removed by the lookup before the computation), leaves the key
\* without a row, and the next call for the key computes anew.
C24_FallbackNotCached ==
    [][FallbackCall
       => /\ last'.result.score = FallbackScore(last'.result.hazard)
          /\ last'.result.cached = "Absent"
          /\ cache' \subseteq cache
          /\ nextId' = nextId
          /\ Resolved(last'.result.point)
             => /\ CallRowsAfter = {}
                /\ cache \ cache' \subseteq {e \in CallRows : now > e.expires_at}
          /\ ~Resolved(last'.result.point) => cache' = cache
          /\ NextCallComputes]_vars

\* C24 witness: a flood calculation on coordinates fell back after another
\* key had been stored; its own key has no row
C24_Witness ==
    /\ last.op = "hazard"
    /\ last.result.hazard = "flood"
    /\ last.result.error
    /\ last.result.score = 250
    /\ Resolved(last.result.point)
    /\ cache # {}
    /\ KeyRows(cache, Round4(Lat(last.result.point)),
               Round4(Lon(last.result.point)), "flood") = {}


(***************************************************************************)
(* RiskAssessmentService.calculate_composite_risk                          *)
(***************************************************************************)
\* has_climate_risk = (climate_risk and 'climate_risk_score' in climate_risk
\* and climate_risk.get('climate_risk_level') != 'Unknown'): Python's `and`
\* yields its first falsy operand, so None gives None and {} gives {}
HasClimateRisk(climate) ==
    IF climate.kind = "None" THEN "None"
    ELSE IF climate.kind = "EmptyDict" THEN "{}"
    ELSE IF ~climate.has_score THEN "False"
    ELSE IF climate.level = "Unknown" THEN "False"
    ELSE "True"

\* truth value of has_climate_risk in `if has_climate_risk`
Truthy(v) == v = "True"

\* the weights dict of the 4-dimension branch
WeightsWithClimate ==
    [systematic_weight |-> 30, regulatory_weight |-> 25,
     idiosyncratic_weight |-> 25, climate_weight |-> 20]

\* the weights dict of the 3-dimension branch
WeightsWithoutClimate ==
    [systematic_weight |-> 40, regulatory_weight |-> 30,
     idiosyncratic_weight |-> 30, climate_weight |-> 0]

\* the weighted composite with the climate term applied in both branches
CompositeRawAlwaysClimate(systematic, regulatory, idiosyncratic, climate) ==
    IF climate.kind = "Dict" /\ climate.has_score
    THEN systematic * 30 + regulatory * 25 + idiosyncratic * 25
         + climate.score * 20
    ELSE systematic * 40 + regulatory * 30 + idiosyncratic * 30

\* composite_risk_score before rounding, in thousandths of a point
CompositeRaw(systematic, regulatory, idiosyncratic, climate) ==
    IF Truthy(HasClimateRisk(climate))
    THEN systematic * 30 + regulatory * 25 + idiosyncratic * 25
         + climate.score * 20
    ELSE systematic * 40 + regulatory * 30 + idiosyncratic * 30

\* composite_risk_level (raw in thousandths)
CompositeRiskLevel(raw) ==
    IF raw < 35000 THEN "Low"
    ELSE IF raw < 55000 THEN "Medium"
    ELSE IF raw < 75000 THEN "High"
    ELSE "Very High"

\* expected_risk_level
ExpectedRisk(rent_decile) ==
    IF rent_decile <= 3 THEN "Low"
    ELSE IF rent_decile >= 8 THEN "High"
    ELSE "Medium"

\* validation_vs_research
Validation(rent_decile, raw) ==
    IF rent_decile <= 3
    THEN (IF raw < 45000 THEN "Aligned" ELSE "Higher than expected")
    ELSE IF rent_decile >= 8
         THEN (IF raw > 50000 THEN "Aligned" ELSE "Lower than expected")
         ELSE "Within expected range"

\* the dict calculate_composite_risk returns; rounded is round(raw, 1)
CalculateCompositeRisk(systematic, regulatory, idiosyncratic, rent_decile, climate, rounded) ==
    LET has == HasClimateRisk(climate)
        raw == CompositeRaw(systematic, regulatory, idiosyncratic, climate)
        weights == IF Truthy(has) THEN WeightsWithClimate
                   ELSE WeightsWithoutClimate
    IN  [composite_risk_score |-> rounded,
         composite_risk_level |-> CompositeRiskLevel(raw),
         expected_risk_level |-> ExpectedRisk(rent_decile),
         systematic_weight |-> weights.systematic_weight,
         regulatory_weight |-> weights.regulatory_weight,
         idiosyncratic_weight |-> weights.idiosyncratic_weight,
         climate_weight |-> weights.climate_weight,
         has_climate_risk |-> has,
         validation_vs_research |-> Validation(rent_decile, raw),
         components |->
            [systematic_score |-> systematic,
             regulatory_score |-> regulatory,
             idiosyncratic_score |-> idiosyncratic,
             climate_score |-> IF Truthy(has) THEN climate.score ELSE NoScore]]

(***************************************************************************)
(* One call of calculate_composite_risk on sampled inputs.  Sub-scores are *)
(* the rounded scores of the three sub-scorers, in tenths; the climate     *)
(* argument is None, an empty dict, or a dict with or without a score.     *)
(***************************************************************************)
ScoreSamples == {0, 345, 350, 755, 1000}

DecileSamples == {3, 5, 8}

ClimateScoreSamples == {207, 250, 800}

ClimateLevels == {"Low", "Medium", "High", "Very High", "Unknown"}

ClimateInputs ==
    {[kind |-> "None", has_score |-> FALSE, score |-> NoScore,
      level |-> "Absent"],
     [kind |-> "EmptyDict", has_score |-> FALSE, score |-> NoScore,
      level |-> "Absent"]}
    \cup {[kind |-> "Dict", has_score |-> FALSE, score |-> NoScore,
           level |-> l] : l \in ClimateLevels}
    \cup {[kind |-> "Dict", has_score |-> TRUE, score |-> sc, level |-> l] :
            sc \in ClimateScoreSamples, l \in ClimateLevels}

InitRisk ==
    /\ ClimateIdle
    /\ hz = "all"
    /\ world = [kind |-> "none"]
    /\ out = [op |-> "none"]
    /\ assessments = {}
    /\ \E s \in ScoreSamples, r \in ScoreSamples, i \in ScoreSamples,
          d \in DecileSamples, c \in ClimateInputs :
          risk = [phase |-> "input", systematic |-> s, regulatory |-> r,
                  idiosyncratic |-> i, rent_decile |-> d, climate |-> c]

CalculateRisk ==
    /\ risk.phase = "input"
    /\ \E rounded \in RoundTenths(CompositeRaw(risk.systematic,
                        risk.regulatory, risk.idiosyncratic, risk.climate)) :
          out' = [op |-> "calculate_composite_risk",
                  result |-> CalculateCompositeRisk(risk.systematic,
                        risk.regulatory, risk.idiosyncratic,
                        risk.rent_decile, risk.climate, rounded)]
    /\ risk' = [risk EXCEPT !.phase = "done"]
    /\ UNCHANGED <<climateVars, writers, world, assessments>>

NextRisk == CalculateRisk

SpecRisk == InitRisk /\ [][NextRisk]_vars

RiskCalled == out.op = "calculate_composite_risk"

\* the bucket of a score given in tenths of a point: Low below 35, Medium
\* below 55, High below 75, else Very High
LevelOfReturnedScore(score) == CompositeRiskLevel(score * 100)

\* C27: the composite_risk_level that calculate_composite_risk returns is the
\* bucket (Low < 35, Medium < 55, High < 75, else Very High) of the
\* composite_risk_score it returns, which is rounded to one decimal.
C27_LevelMatchesReturnedScore ==
    RiskCalled
    => out.result.composite_risk_level
        = LevelOfReturnedScore(out.result.composite_risk_score)

\* a valid climate result: a dict holding a score whose level is not 'Unknown'
ValidClimate(climate) ==
    /\ climate.kind = "Dict"
    /\ climate.has_score
    /\ climate.level # "Unknown"

\* the sub-scores weighted by the weights the result reports, in thousandths
ReportedWeightedSum(res, climate) ==
    res.components.systematic_score * res.systematic_weight
    + res.components.regulatory_score * res.regulatory_weight
    + res.components.idiosyncratic_score * res.idiosyncratic_weight
    + (IF res.climate_weight = 0 THEN 0
       ELSE climate.score * res.climate_weight)

ReportedWeights(res) ==
    [systematic_weight |-> res.systematic_weight,
     regulatory_weight |-> res.regulatory_weight,
     idiosyncratic_weight |-> res.idiosyncratic_weight,
     climate_weight |-> res.climate_weight]

\* C5: calculate_composite_risk reports 30/25/25/20 when a valid climate
\* result is supplied and 40/30/30/0 otherwise; the reported weights sum to
\* 100 and the composite score is the sub-scores weighted by the reported
\* weights (rounded to one decimal).
C5_WeightSets ==
    RiskCalled =>
        LET res == out.result
        IN  /\ ReportedWeights(res) =
                 (IF ValidClimate(risk.climate) THEN WeightsWithClimate
                  ELSE WeightsWithoutClimate)
            /\ res.systematic_weight + res.regulatory_weight
               + res.idiosyncratic_weight + res.climate_weight = 100
            /\ res.composite_risk_score \in
                 RoundTenths(ReportedWeightedSum(res, risk.climate))

\* both weight sets are met in turn: here the 4-dimension one, with a score
\* that the climate term moves
C5_Witness ==
    /\ RiskCalled
    /\ ValidClimate(risk.climate)
    /\ out.result.climate_weight = 20
    /\ out.result.composite_risk_score \notin
         RoundTenths(risk.systematic * 40 + risk.regulatory * 30
                     + risk.idiosyncratic * 30)

\* C6: a climate result that is 'Unknown', absent or without a score gives
\* has_climate_risk false, weights 40/30/30/0, components.climate_score None
\* and a composite to which the placeholder climate score does not contribute.
C6_UnknownRoutedToFallback ==
    (RiskCalled /\ ~ValidClimate(risk.climate)) =>
        LET res == out.result
        IN  /\ res.has_climate_risk = "False"
            /\ ReportedWeights(res) = WeightsWithoutClimate
            /\ res.components.climate_score = NoScore
            /\ res.composite_risk_score \in
                 RoundTenths(risk.systematic * 40 + risk.regulatory * 30
                             + risk.idiosyncratic * 30)

(***************************************************************************)
(* DealMemoService: generate_memo and generate_comparison_memo.  A deal is *)
(* described by what the stages of generate_memo obtain for it: whether    *)
(* the row exists and carries coordinates, whether the hedonic prediction  *)
(* or a later stage raises, and the values the stages return.  Returns are *)
(* in hundredths of a percent, scores in tenths of a point.                *)
(***************************************************************************)
MaxListLen == 3

MinDeals == 2

MaxDeals == 5

DefaultRent == 1000

DealIds == {1, 2, 3}

\* DealModel.query.get(deal_id) returns None
MissingDeal == [exists |-> FALSE]

\* a deal for which a stage after the rent prediction raises
FailingDeal ==
    [exists |-> TRUE, has_coords |-> TRUE, hedonic |-> "ok",
     hedonic_rent |-> 1500, monthly_rent |-> 1400, stage |-> "raises",
     failing_section |-> 3]

LowRentDeal ==
    [exists |-> TRUE, has_coords |-> TRUE, hedonic |-> "ok",
     hedonic_rent |-> 900, monthly_rent |-> 950, stage |-> "ok",
     national_decile |-> 3, systematic |-> 345, regulatory |-> 350,
     idiosyncratic |-> 0, total_return_unlevered |-> 850,
     total_return_levered |-> 1200, arbitrage_opportunity_score |-> 750,
     failing_section |-> 0, year_built |-> 1990, purchase_price |-> 150000,
     net_yield |-> 5500, capital_gain |-> 3000,
     loan_interest_rate |-> 0, down_payment_percent |-> 0]

\* the hedonic model raises; no observed rent either
HighRentDeal ==
    [exists |-> TRUE, has_coords |-> FALSE, hedonic |-> "raises",
     hedonic_rent |-> 0, monthly_rent |-> 0, stage |-> "ok",
     national_decile |-> 8, systematic |-> 755, regulatory |-> 1000,
     idiosyncratic |-> 350, total_return_unlevered |-> 450,
     total_return_levered |-> 500, arbitrage_opportunity_score |-> 300,
     failing_section |-> 0, year_built |-> 0, purchase_price |-> 0,
     net_yield |-> 2500, capital_gain |-> 2000,
     loan_interest_rate |-> 700, down_payment_percent |-> 200]

\* all three sub-scores are 0: the composite risk score is 0
ZeroRiskDeal ==
    [exists |-> TRUE, has_coords |-> TRUE, hedonic |-> "ok",
     hedonic_rent |-> 1200, monthly_rent |-> 1200, stage |-> "ok",
     national_decile |-> 5, systematic |-> 0, regulatory |-> 0,
     idiosyncratic |-> 0, total_return_unlevered |-> 650,
     total_return_levered |-> 1200, arbitrage_opportunity_score |-> 600,
     failing_section |-> 0, year_built |-> 2026, purchase_price |-> 300000,
     net_yield |-> 4125, capital_gain |-> 2375,
     loan_interest_rate |-> 550, down_payment_percent |-> 500]

DealProfiles ==
    <<MissingDeal, FailingDeal, LowRentDeal, HighRentDeal, ZeroRiskDeal>>

\* the deals table: a profile for each id.  Nothing in the services depends
\* on the value of an id, so of the tables that differ only by a renaming of
\* the ids one is kept, the one with the profiles in order
DealTables ==
    {[d \in DealIds |-> DealProfiles[f[d]]] :
        f \in {g \in [DealIds -> 1..Len(DealProfiles)] :
                  \A d, e \in DealIds : d < e => g[d] <= g[e]}}

\* the climate_risk argument left at its default
NoClimate ==
    [kind |-> "None", has_score |-> FALSE, score |-> NoScore,
     level |-> "Absent"]

\* predicted_rent after SECTION 2: the hedonic prediction, or on its failure
\* deal.monthly_rent or 1000
PredictedRent(deal) ==
    IF deal.hedonic = "ok" THEN deal.hedonic_rent
    ELSE IF deal.monthly_rent # 0 THEN deal.monthly_rent ELSE DefaultRent

\* memo['rent_prediction']
RentPrediction(deal) ==
    IF deal.hedonic = "ok"
    THEN [predicted_rent |-> deal.hedonic_rent]
    ELSE [predicted_rent |-> PredictedRent(deal),
          error |-> "hedonic model failed",
          fallback_method |-> "observed_rent"]

\* a rating whose 'Consider' branch tests the return the wrong way round
RecommendationInvertedConsider(unlevered, composite_score, arbitrage) ==
    IF unlevered > 800 /\ composite_score < 450 /\ arbitrage > 700
    THEN [overall_rating |-> "Strong Buy", rating_score |-> 90]
    ELSE IF unlevered > 600 /\ composite_score < 550 /\ arbitrage > 550
    THEN [overall_rating |-> "Buy", rating_score |-> 75]
    ELSE IF unlevered > 400 /\ composite_score < 650
    THEN [overall_rating |-> "Hold", rating_score |-> 60]
    ELSE IF unlevered < 200
    THEN [overall_rating |-> "Consider", rating_score |-> 45]
    ELSE [overall_rating |-> "Pass", rating_score |-> 30]

\* rating and rating_score of _generate_recommendation
Recommendation(unlevered, composite_score, arbitrage) ==
    IF unlevered > 800 /\ composite_score < 450 /\ arbitrage > 700
    THEN [overall_rating |-> "Strong Buy", rating_score |-> 90]
    ELSE IF unlevered > 600 /\ composite_score < 550 /\ arbitrage > 550
    THEN [overall_rating |-> "Buy", rating_score |-> 75]
    ELSE IF unlevered > 400 /\ composite_score < 650
    THEN [overall_rating |-> "Hold", rating_score |-> 60]
    ELSE IF unlevered > 200
    THEN [overall_rating |-> "Consider", rating_score |-> 45]
    ELSE [overall_rating |-> "Pass", rating_score |-> 30]

\* the exception generate_memo ends with, "None" when it returns
MemoRaises(deal) ==
    IF ~deal.exists THEN "ValueError"
    ELSE IF deal.stage = "raises" THEN "ConfigurationError"
    ELSE "None"

\* composite_risk_score of the memo before rounding: calculate_composite_risk
\* is called without a climate_risk argument
MemoCompositeRaw(deal) ==
    CompositeRaw(deal.systematic, deal.regulatory, deal.idiosyncratic,
                 NoClimate)

\* the five scenarios of _generate_sensitivity_analysis.  Yields are in
\* thousandths of a percent, cost of debt in hundredths, LTV in thousandths
DefaultCostOfDebt == 650

DefaultDownPayment == 250

DefaultPropertyValue == 200000

HoldingPeriod == 10

YieldShift == 500

AppreciationShift == 1000

RateShift == 200

LowLeverageLtv == 500

BaseYear == 2026

DaysPerYear == 365

NoAge == -1

\* {}: a section of the memo that no stage has filled
EmptyDict == [k \in {} |-> 0]

\* datetime.now().year, the clock counting days from 1 January of BaseYear
CurrentYear(t) == BaseYear + (t \div DaysPerYear)

\* year_built and property_age of SECTION 1
PropertyAge(deal, t) ==
    IF deal.year_built # 0 THEN CurrentYear(t) - deal.year_built ELSE NoAge

\* deal.loan_interest_rate or 6.5
CostOfDebt(deal) ==
    IF deal.loan_interest_rate # 0 THEN deal.loan_interest_rate
    ELSE DefaultCostOfDebt

\* ltv = 1.0 - (down_payment_pct / 100), down_payment_pct being
\* deal.down_payment_percent or 25.0 (in tenths of a percent)
Ltv(deal) ==
    1000 - (IF deal.down_payment_percent # 0 THEN deal.down_payment_percent
            ELSE DefaultDownPayment)

\* deal.purchase_price or 200000
PropertyValue(deal) ==
    IF deal.purchase_price # 0 THEN deal.purchase_price
    ELSE DefaultPropertyValue

\* TotalReturnService.calculate_levered_return(unlevered, cost_of_debt, ltv):
\* the value is kept as the application of the calculator to its arguments
LeveredReturn(unlevered, cost_of_debt, ltv) ==
    [calculator |-> "calculate_levered_return", unlevered_return |-> unlevered,
     cost_of_debt |-> cost_of_debt, ltv |-> ltv]

\* round(x, 2) of a float whose exact value is x thousandths, in hundredths:
\* at an exact tie the binary value may lie on either side
Round2(x) ==
    LET q == x \div 10
        r == x % 10
    IN  IF r < 5 THEN {q} ELSE IF r > 5 THEN {q + 1} ELSE {q, q + 1}

\* a sensitivity analysis whose optimistic scenario leaves the yield unshifted
SensitivityFlatOptimistic(net_yield, appreciation, cost_of_debt, ltv, rnd) ==
    [scenarios |->
        [base |->
            [name |-> "Base Case", net_yield |-> net_yield,
             capital_gain |-> appreciation,
             total_return_unlevered |-> rnd.base,
             total_return_levered |->
                LeveredReturn(net_yield + appreciation, cost_of_debt, ltv)],
         optimistic |->
            [name |-> "Optimistic", net_yield |-> net_yield,
             capital_gain |-> appreciation + AppreciationShift,
             total_return_unlevered |-> rnd.optimistic,
             total_return_levered |->
                LeveredReturn(net_yield + appreciation + AppreciationShift,
                              cost_of_debt, ltv)],
         pessimistic |->
            [name |-> "Pessimistic", net_yield |-> net_yield - YieldShift,
             capital_gain |-> appreciation - AppreciationShift,
             total_return_unlevered |-> rnd.pessimistic,
             total_return_levered |->
                LeveredReturn((net_yield - YieldShift)
                              + (appreciation - AppreciationShift),
                              cost_of_debt, ltv)],
         high_rates |->
            [name |-> "High Interest Rates", net_yield |-> net_yield,
             capital_gain |-> appreciation,
             cost_of_debt |-> cost_of_debt + RateShift,
             total_return_unlevered |-> rnd.base,
             total_return_levered |->
                LeveredReturn(net_yield + appreciation,
                              cost_of_debt + RateShift, ltv)],
         low_leverage |->
            [name |-> "Low Leverage (50% LTV)", net_yield |-> net_yield,
             capital_gain |-> appreciation, ltv |-> LowLeverageLtv,
             total_return_unlevered |-> rnd.base,
             total_return_levered |->
                LeveredReturn(net_yield + appreciation, cost_of_debt,
                              LowLeverageLtv)]]]

\* _generate_sensitivity_analysis; rnd holds the rounded unlevered returns
SensitivityAnalysis(net_yield, appreciation, cost_of_debt, ltv, rnd) ==
    [scenarios |->
        [base |->
            [name |-> "Base Case", net_yield |-> net_yield,
             capital_gain |-> appreciation,
             total_return_unlevered |-> rnd.base,
             total_return_levered |->
                LeveredReturn(net_yield + appreciation, cost_of_debt, ltv)],
         optimistic |->
            [name |-> "Optimistic", net_yield |-> net_yield + YieldShift,
             capital_gain |-> appreciation + AppreciationShift,
             total_return_unlevered |-> rnd.optimistic,
             total_return_levered |->
                LeveredReturn((net_yield + YieldShift)
                              + (appreciation + AppreciationShift),
                              cost_of_debt, ltv)],
         pessimistic |->
            [name |-> "Pessimistic", net_yield |-> net_yield - YieldShift,
             capital_gain |-> appreciation - AppreciationShift,
             total_return_unlevered |-> rnd.pessimistic,
             total_return_levered |->
                LeveredReturn((net_yield - YieldShift)
                              + (appreciation - AppreciationShift),
                              cost_of_debt, ltv)],
         high_rates |->
            [name |-> "High Interest Rates", net_yield |-> net_yield,
             capital_gain |-> appreciation,
             cost_of_debt |-> cost_of_debt + RateShift,
             total_return_unlevered |-> rnd.base,
             total_return_levered |->
                LeveredReturn(net_yield + appreciation,
                              cost_of_debt + RateShift, ltv)],
         low_leverage |->
            [name |-> "Low Leverage (50% LTV)", net_yield |-> net_yield,
             capital_gain |-> appreciation, ltv |-> LowLeverageLtv,
             total_return_unlevered |-> rnd.base,
             total_return_levered |->
                LeveredReturn(net_yield + appreciation, cost_of_debt,
                              LowLeverageLtv)]]]

\* the roundings one run of generate_memo can make: the composite risk score
\* and the unlevered returns of the scenarios
MemoRoundings(deal) ==
    [composite : RoundTenths(MemoCompositeRaw(deal)),
     base : Round2(deal.net_yield + deal.capital_gain),
     optimistic : Round2((deal.net_yield + YieldShift)
                         + (deal.capital_gain + AppreciationShift)),
     pessimistic : Round2((deal.net_yield - YieldShift)
                          + (deal.capital_gain - AppreciationShift))]

\* the memo dict as generate_memo creates it, before SECTION 1
MemoSkeleton(deal_id, t) ==
    [deal_id |-> deal_id, generated_at |-> t,
     holding_period |-> HoldingPeriod,
     property_summary |-> EmptyDict, rent_prediction |-> EmptyDict,
     tier_classification |-> EmptyDict, yield_analysis |-> EmptyDict,
     appreciation_projection |-> EmptyDict, total_return |-> EmptyDict,
     risk_assessment |-> EmptyDict, arbitrage_opportunity |-> EmptyDict,
     investment_recommendation |-> EmptyDict,
     sensitivity_analysis |-> EmptyDict, executive_summary |-> EmptyDict]

\* the sections without the executive summary
SectionsWithoutSummary ==
    <<"property_summary", "rent_prediction", "tier_classification",
      "yield_analysis", "appreciation_projection", "total_return",
      "risk_assessment", "arbitrage_opportunity",
      "investment_recommendation", "sensitivity_analysis">>

\* SECTION 1 .. SECTION 11 of generate_memo, in the order they are filled
Sections ==
    <<"property_summary", "rent_prediction", "tier_classification",
      "yield_analysis", "appreciation_projection", "total_return",
      "risk_assessment", "arbitrage_opportunity",
      "investment_recommendation", "sensitivity_analysis",
      "executive_summary">>

\* the value SECTION k stores in the memo, given the memo filled so far
Section(k, memo, deal, rnd, t) ==
    CASE k = 1 ->
            [purchase_price |-> deal.purchase_price,
             year_built |-> deal.year_built,
             property_age |-> PropertyAge(deal, t)]
      [] k = 2 -> RentPrediction(deal)
      [] k = 3 -> [national_decile |-> deal.national_decile]
      [] k = 4 ->
            [annual_rent |-> PredictedRent(deal) * 12,
             property_value |-> PropertyValue(deal),
             net_yield |-> deal.net_yield]
      [] k = 5 -> [annualized_appreciation_rate |-> deal.capital_gain]
      [] k = 6 ->
            [net_yield |-> deal.net_yield,
             capital_gain_yield |-> deal.capital_gain,
             total_return_unlevered |-> deal.total_return_unlevered,
             cost_of_debt |-> CostOfDebt(deal),
             ltv |-> Ltv(deal),
             total_return_levered |-> deal.total_return_levered]
      [] k = 7 ->
            [composite_risk |->
                CalculateCompositeRisk(deal.systematic, deal.regulatory,
                    deal.idiosyncratic, deal.national_decile, NoClimate,
                    rnd.composite)]
      [] k = 8 ->
            [overall_opportunity |->
                [arbitrage_opportunity_score |->
                    deal.arbitrage_opportunity_score]]
      [] k = 9 ->
            Recommendation(deal.total_return_unlevered,
                memo.risk_assessment.composite_risk.composite_risk_score,
                deal.arbitrage_opportunity_score)
      [] k = 10 ->
            SensitivityAnalysis(deal.net_yield, deal.capital_gain,
                                CostOfDebt(deal), Ltv(deal), rnd)
      [] k = 11 ->
            [purchase_price |-> deal.purchase_price,
             calculated_return_unlevered |->
                memo.total_return.total_return_unlevered,
             calculated_return_levered |->
                memo.total_return.total_return_levered,
             risk_level |->
                memo.risk_assessment.composite_risk.composite_risk_level,
             risk_score |->
                memo.risk_assessment.composite_risk.composite_risk_score,
             arbitrage_score |->
                memo.arbitrage_opportunity.overall_opportunity
                    .arbitrage_opportunity_score,
             overall_rating |->
                memo.investment_recommendation.overall_rating,
             rating_score |-> memo.investment_recommendation.rating_score]

\* generate_memo from SECTION k on: a stage that raises ends the call with
\* the exception and the memo built so far is dropped
RECURSIVE FillSections(_, _, _, _, _)
FillSections(memo, k, deal, rnd, t) ==
    IF k > Len(Sections) THEN [raised |-> "None", memo |-> memo]
    ELSE IF deal.stage = "raises" /\ deal.failing_section = k
    THEN [raised |-> "ConfigurationError"]
    ELSE FillSections(
            [memo EXCEPT ![Sections[k]] = Section(k, memo, deal, rnd, t)],
            k + 1, deal, rnd, t)

\* the memo generate_memo returns at time t with the roundings rnd
Memo(deal_id, deal, rnd, t) ==
    FillSections(MemoSkeleton(deal_id, t), 1, deal, rnd, t).memo

\* what one call generate_memo(deal_id) at time t can end with
GenerateMemoOutcomes(deal_id, deal, t) ==
    IF ~deal.exists THEN {[raised |-> "ValueError"]}
    ELSE IF deal.stage = "raises"
    THEN {FillSections(MemoSkeleton(deal_id, t), 1, deal,
                       [composite |-> 0], t)}
    ELSE {FillSections(MemoSkeleton(deal_id, t), 1, deal, rnd, t) :
            rnd \in MemoRoundings(deal)}

\* a loop that records a memo built from the fallback rent as a failure
SlotOutcomesErrorOnFallback(deal_id, deal, t) ==
    {IF o.raised # "None" THEN [error |-> o.raised]
     ELSE IF "error" \in DOMAIN o.memo.rent_prediction
     THEN [error |-> o.memo.rent_prediction.error]
     ELSE o.memo :
        o \in GenerateMemoOutcomes(deal_id, deal, t)}

\* comparison['deals'][deal_id] after the try/except of the loop
SlotOutcomes(deal_id, deal, t) ==
    {IF o.raised = "None" THEN o.memo ELSE [error |-> o.raised] :
        o \in GenerateMemoOutcomes(deal_id, deal, t)}

\* the keys of comparison['deals'] in insertion order: each id at its first
\* occurrence in deal_ids
RECURSIVE InsertionOrder(_)
InsertionOrder(deal_ids) ==
    IF deal_ids = <<>> THEN <<>>
    ELSE LET front == SubSeq(deal_ids, 1, Len(deal_ids) - 1)
             x == deal_ids[Len(deal_ids)]
         IN  IF \E i \in 1..Len(front) : front[i] = x
             THEN InsertionOrder(front)
             ELSE Append(InsertionOrder(front), x)

\* the contents comparison['deals'] can have after the loop over the ids of
\* order: one slot for each id
RECURSIVE SlotChoices(_, _, _)
SlotChoices(order, deals_table, t) ==
    IF order = <<>> THEN {EmptyDict}
    ELSE LET d == order[Len(order)]
             front == SubSeq(order, 1, Len(order) - 1)
         IN  {f @@ (d :> slot) :
                f \in SlotChoices(front, deals_table, t),
                slot \in SlotOutcomes(d, deals_table[d], t)}

\* a filter that also drops a memo with an 'error' key in a section
ValidDealsNoNestedError(deals, order) ==
    SelectSeq(order, LAMBDA d :
        /\ "error" \notin DOMAIN deals[d]
        /\ "error" \notin DOMAIN deals[d].rent_prediction)

\* valid_deals: the slots without an 'error' key, in insertion order
ValidDeals(deals, order) ==
    SelectSeq(order, LAMBDA d : "error" \notin DOMAIN deals[d])

\* a sort without reverse=True: ascending keys
SortedAscending(items, greater) ==
    LET n == Len(items)
        position(i) ==
            1 + Cardinality({j \in 1..n :
                    \/ greater[items[i], items[j]]
                    \/ (~greater[items[j], items[i]] /\ j < i)})
    IN  [k \in 1..n |-> items[CHOOSE i \in 1..n : position(i) = k]]

\* sorted(items, key=..., reverse=True): a stable sort, items with equal keys
\* keep their order; greater[a, b] is key(a) > key(b)
SortedReverse(items, greater) ==
    LET n == Len(items)
        position(i) ==
            1 + Cardinality({j \in 1..n :
                    \/ greater[items[j], items[i]]
                    \/ (~greater[items[i], items[j]] /\ j < i)})
    IN  [k \in 1..n |-> items[CHOOSE i \in 1..n : position(i) = k]]

\* max(composite_risk_score, 1), the score in tenths
RiskDivisor(memo) ==
    IF memo.risk_assessment.composite_risk.composite_risk_score > 10
    THEN memo.risk_assessment.composite_risk.composite_risk_score
    ELSE 10

\* _rank_deals: each ranking lists the ids of its (deal_id, memo) items
RankDeals(deals, order) ==
    LET valid == ValidDeals(deals, order)
        ids == {valid[i] : i \in 1..Len(valid)}
    IN  [by_total_return |->
            SortedReverse(valid, [a \in ids, b \in ids |->
                deals[a].total_return.total_return_levered
                > deals[b].total_return.total_return_levered]),
         by_risk_adjusted_return |->
            SortedReverse(valid, [a \in ids, b \in ids |->
                deals[a].total_return.total_return_unlevered
                    * RiskDivisor(deals[b])
                > deals[b].total_return.total_return_unlevered
                    * RiskDivisor(deals[a])]),
         by_arbitrage_opportunity |->
            SortedReverse(valid, [a \in ids, b \in ids |->
                deals[a].arbitrage_opportunity.overall_opportunity
                    .arbitrage_opportunity_score
                > deals[b].arbitrage_opportunity.overall_opportunity
                    .arbitrage_opportunity_score]),
         by_overall_rating |->
            SortedReverse(valid, [a \in ids, b \in ids |->
                deals[a].investment_recommendation.rating_score
                > deals[b].investment_recommendation.rating_score])]

\* the deal_ids arguments: every list up to MaxListLen, and one list longer
\* than the maximum
TooManyDeals == [i \in 1..(MaxDeals + 1) |-> 1]

DealLists ==
    UNION {[1..n -> DealIds] : n \in 0..MaxListLen} \cup {TooManyDeals}

Listed(deal_ids) == {deal_ids[i] : i \in 1..Len(deal_ids)}

InitMemo ==
    /\ ClimateIdle
    /\ hz = "all"
    /\ risk = [phase |-> "idle"]
    /\ out = [op |-> "none"]
    /\ assessments = {}
    /\ world \in DealTables

GenerateMemo(deal_id) ==
    /\ \E o \in GenerateMemoOutcomes(deal_id, world[deal_id], now) :
          out' = [op |-> "generate_memo", deal_id |-> deal_id] @@ o
    /\ UNCHANGED <<climateVars, writers, risk, world, assessments>>

GenerateComparisonMemo(deal_ids) ==
    /\ IF Len(deal_ids) < MinDeals \/ Len(deal_ids) > MaxDeals
       THEN out' = [op |-> "generate_comparison_memo",
                    deal_ids |-> deal_ids, raised |-> "ValueError"]
       ELSE \E deals \in SlotChoices(InsertionOrder(deal_ids), world, now) :
              out' = [op |-> "generate_comparison_memo",
                      deal_ids |-> deal_ids, raised |-> "None",
                      deals |-> deals,
                      rankings |->
                        RankDeals(deals, InsertionOrder(deal_ids))]
    /\ UNCHANGED <<climateVars, writers, risk, world, assessments>>

NextMemo ==
    \/ \E d \in DealIds : GenerateMemo(d)
    \/ \E deal_ids \in DealLists : GenerateComparisonMemo(deal_ids)

SpecMemo == InitMemo /\ [][NextMemo]_vars

\* C8: generate_memo runs the climate sub-scorer and hands its result to the
\* composite: for a deal whose climate risk is available (it has coordinates)
\* the composite in the memo reports has_climate_risk true and the weights
\* 30/25/25/20.
C8_MemoUsesClimate ==
    (/\ out.op = "generate_memo"
     /\ out.raised = "None"
     /\ world[out.deal_id].has_coords)
    => LET res == out.memo.risk_assessment.composite_risk
       IN  /\ res.has_climate_risk = "True"
           /\ ReportedWeights(res) = WeightsWithClimate

ComparisonReturned ==
    /\ out.op = "generate_comparison_memo"
    /\ Len(out.deal_ids) \in MinDeals..MaxDeals

SeqIds(seq) == {seq[i] : i \in 1..Len(seq)}

\* the ranking lists exactly the ids of set, each once
ListsExactly(seq, set) ==
    /\ SeqIds(seq) = set
    /\ Len(seq) = Cardinality(set)

\* C10: for every list of 2 to 5 deals generate_comparison_memo returns even
\* if generate_memo raises for some of them; each listed deal has one slot,
\* an error entry if its memo raised and else the memo generate_memo gives
\* for that deal alone, and each of the four rankings lists exactly the deals
\* without an error entry.
C10_BatchIsolatesFailures ==
    ComparisonReturned =>
        /\ out.raised = "None"
        /\ DOMAIN out.deals = Listed(out.deal_ids)
        /\ \A d \in Listed(out.deal_ids) :
              IF MemoRaises(world[d]) # "None"
              THEN out.deals[d] = [error |-> MemoRaises(world[d])]
              ELSE \E o \in GenerateMemoOutcomes(d, world[d], now) :
                      out.deals[d] = o.memo
        /\ LET ok == {d \in Listed(out.deal_ids) :
                        MemoRaises(world[d]) = "None"}
           IN  /\ ListsExactly(out.rankings.by_total_return, ok)
               /\ ListsExactly(out.rankings.by_risk_adjusted_return, ok)
               /\ ListsExactly(out.rankings.by_arbitrage_opportunity, ok)
               /\ ListsExactly(out.rankings.by_overall_rating, ok)

\* three deals are compared, one of them fails, and the two others are ranked
C10_Witness ==
    /\ ComparisonReturned
    /\ Cardinality(Listed(out.deal_ids)) = 3
    /\ Cardinality({d \in DealIds : MemoRaises(world[d]) # "None"}) = 1
    /\ Len(out.rankings.by_total_return) = 2
    /\ \E d \in DealIds : out.deals[d] = [error |-> "ConfigurationError"]

\* adjacent and non-adjacent pairs of a ranking: the earlier entry's key is
\* not below the later entry's; notBelow[a, b] is key(a) >= key(b)
NonIncreasing(ranking, notBelow) ==
    \A i \in 1..Len(ranking), j \in 1..Len(ranking) :
        i < j => notBelow[ranking[i], ranking[j]]

\* composite_risk_score of a slot, in tenths, and the divisor max(score, 1)
SlotRiskScore(d) ==
    out.deals[d].risk_assessment.composite_risk.composite_risk_score

SlotDivisor(d) == IF SlotRiskScore(d) >= 10 THEN SlotRiskScore(d) ELSE 10

ValidSlots == {d \in DOMAIN out.deals : "error" \notin DOMAIN out.deals[d]}

\* C13: over the valid deals of a comparison each of the four rankings is in
\* non-increasing order of its key: levered total return, unlevered return
\* divided by max(composite risk score, 1), arbitrage opportunity score,
\* rating score; a composite risk score of 0 divides by 1, not by 0.
C13_RankingsOrdered ==
    ComparisonReturned =>
        /\ out.raised = "None"
        /\ \A d \in ValidSlots : SlotDivisor(d) > 0
        /\ SeqIds(out.rankings.by_risk_adjusted_return) = ValidSlots
        /\ NonIncreasing(out.rankings.by_total_return,
              [a \in ValidSlots, b \in ValidSlots |->
                out.deals[a].total_return.total_return_levered
                >= out.deals[b].total_return.total_return_levered])
        /\ NonIncreasing(out.rankings.by_risk_adjusted_return,
              [a \in ValidSlots, b \in ValidSlots |->
                out.deals[a].total_return.total_return_unlevered
                    * SlotDivisor(b)
                >= out.deals[b].total_return.total_return_unlevered
                    * SlotDivisor(a)])
        /\ NonIncreasing(out.rankings.by_arbitrage_opportunity,
              [a \in ValidSlots, b \in ValidSlots |->
                out.deals[a].arbitrage_opportunity.overall_opportunity
                    .arbitrage_opportunity_score
                >= out.deals[b].arbitrage_opportunity.overall_opportunity
                    .arbitrage_opportunity_score])
        /\ NonIncreasing(out.rankings.by_overall_rating,
              [a \in ValidSlots, b \in ValidSlots |->
                out.deals[a].investment_recommendation.rating_score
                >= out.deals[b].investment_recommendation.rating_score])

\* a comparison of three valid deals, one of them with composite risk score
\* 0, whose levered returns are not all equal
C13_Witness ==
    /\ ComparisonReturned
    /\ out.raised = "None"
    /\ Cardinality(ValidSlots) = 3
    /\ \E d \in ValidSlots : SlotRiskScore(d) = 0
    /\ \E a \in ValidSlots, b \in ValidSlots :
          /\ out.deals[a].total_return.total_return_unlevered
                * SlotDivisor(b)
             > out.deals[b].total_return.total_return_unlevered
                * SlotDivisor(a)
          /\ out.deals[a].investment_recommendation.rating_score
             > out.deals[b].investment_recommendation.rating_score

(***************************************************************************)
(* generate_memo alone, on one deal row drawn from a wider set of rows and *)
(* called at different times.                                              *)
(***************************************************************************)
MaxElapse == 2

\* the deal rows generate_memo is run on, and what its stages obtain for each
MemoProfiles ==
    {MissingDeal} \cup
    {[exists |-> TRUE, has_coords |-> TRUE, hedonic |-> h.hedonic,
      hedonic_rent |-> h.hedonic_rent, monthly_rent |-> m,
      stage |-> f.stage, failing_section |-> f.failing_section,
      national_decile |-> r.national_decile, systematic |-> r.systematic,
      regulatory |-> r.regulatory, idiosyncratic |-> r.idiosyncratic,
      total_return_unlevered |-> r.total_return_unlevered,
      total_return_levered |-> r.total_return_levered,
      arbitrage_opportunity_score |-> r.arbitrage_opportunity_score,
      year_built |-> y, purchase_price |-> 150000,
      net_yield |-> g.net_yield, capital_gain |-> g.capital_gain,
      loan_interest_rate |-> l.loan_interest_rate,
      down_payment_percent |-> l.down_payment_percent] :
        h \in {[hedonic |-> "ok", hedonic_rent |-> 1500],
               [hedonic |-> "raises", hedonic_rent |-> 0]},
        m \in {0, 950},
        f \in {[stage |-> "ok", failing_section |-> 0],
               [stage |-> "raises", failing_section |-> 3],
               [stage |-> "raises", failing_section |-> 7],
               [stage |-> "raises", failing_section |-> 11]},
        r \in {[national_decile |-> 3, systematic |-> 345,
                regulatory |-> 350, idiosyncratic |-> 0,
                total_return_unlevered |-> 850,
                total_return_levered |-> 1200,
                arbitrage_opportunity_score |-> 750],
               [national_decile |-> 8, systematic |-> 755,
                regulatory |-> 1000, idiosyncratic |-> 350,
                total_return_unlevered |-> 450,
                total_return_levered |-> 500,
                arbitrage_opportunity_score |-> 300]},
        y \in {0, 2000},
        g \in {[net_yield |-> 5500, capital_gain |-> 3000],
               [net_yield |-> 5500, capital_gain |-> 2375]},
        l \in {[loan_interest_rate |-> 0, down_payment_percent |-> 0],
               [loan_interest_rate |-> 700, down_payment_percent |-> 500]}}

InitGenerate ==
    /\ ClimateIdle
    /\ hz = "all"
    /\ risk = [phase |-> "idle"]
    /\ out = [op |-> "none"]
    /\ assessments = {}
    /\ \E p \in MemoProfiles : world = [d \in DealIds |-> p]

\* time passes between two calls: a day, or a year
Elapse(days) ==
    /\ steps < MaxElapse
    /\ steps' = steps + 1
    /\ now' = now + days
    /\ UNCHANGED <<cache, nextId, last, hz, writers, engineVars>>

NextGenerate ==
    \/ \E d \in DealIds : GenerateMemo(d)
    \/ \E days \in {1, DaysPerYear} : Elapse(days)

SpecGenerate == InitGenerate /\ [][NextGenerate]_vars

MemoReturned ==
    /\ out.op = "generate_memo"
    /\ out.raised = "None"

\* C11: when the hedonic prediction fails generate_memo still returns a memo,
\* the later stages take the observed monthly rent of the deal as predicted
\* rent, and rent_prediction carries fallback_method 'observed_rent'.
C11_HedonicFallback ==
    (/\ out.op = "generate_memo"
     /\ world[out.deal_id].exists
     /\ world[out.deal_id].hedonic = "raises"
     /\ world[out.deal_id].stage = "ok")
    => /\ out.raised = "None"
       /\ "fallback_method" \in DOMAIN out.memo.rent_prediction
       /\ out.memo.rent_prediction.fallback_method = "observed_rent"
       /\ out.memo.rent_prediction.predicted_rent
            = world[out.deal_id].monthly_rent
       /\ out.memo.yield_analysis.annual_rent
            = world[out.deal_id].monthly_rent * 12

Scenarios == out.memo.sensitivity_analysis.scenarios

PlainScenarioKeys ==
    {"name", "net_yield", "capital_gain", "total_return_unlevered",
     "total_return_levered"}

\* one scenario: its yield and appreciation, the keys it holds, its reported
\* unlevered return and the arguments its levered return was computed from
ScenarioIs(sc, keys, net_yield, capital_gain, cost_of_debt, ltv) ==
    /\ DOMAIN sc = keys
    /\ sc.net_yield = net_yield
    /\ sc.capital_gain = capital_gain
    /\ sc.total_return_unlevered \in Round2(net_yield + capital_gain)
    /\ sc.total_return_levered
         = [calculator |-> "calculate_levered_return",
            unlevered_return |-> net_yield + capital_gain,
            cost_of_debt |-> cost_of_debt, ltv |-> ltv]

\* C14: the sensitivity analysis of a memo holds exactly five scenarios: base,
\* optimistic (yield +0.5, appreciation +1.0), pessimistic (-0.5, -1.0), high
\* rates (cost of debt +2.0) and low leverage (LTV 0.50).  Each differs from
\* the base case only in the stated inputs, and its levered return is
\* calculate_levered_return applied to the scenario's yield plus
\* appreciation, its cost of debt and its LTV; the reported unlevered return
\* is that sum rounded to two decimals.
C14_FiveScenarios ==
    MemoReturned =>
        LET deal == world[out.deal_id]
            ny == deal.net_yield
            cg == deal.capital_gain
            cod == out.memo.total_return.cost_of_debt
            ltv == out.memo.total_return.ltv
        IN  /\ DOMAIN Scenarios = {"base", "optimistic", "pessimistic",
                                   "high_rates", "low_leverage"}
            /\ out.memo.yield_analysis.net_yield = ny
            /\ out.memo.appreciation_projection
                  .annualized_appreciation_rate = cg
            /\ ScenarioIs(Scenarios.base, PlainScenarioKeys,
                          ny, cg, cod, ltv)
            /\ ScenarioIs(Scenarios.optimistic, PlainScenarioKeys,
                          ny + 500, cg + 1000, cod, ltv)
            /\ ScenarioIs(Scenarios.pessimistic, PlainScenarioKeys,
                          ny - 500, cg - 1000, cod, ltv)
            /\ ScenarioIs(Scenarios.high_rates,
                          PlainScenarioKeys \cup {"cost_of_debt"},
                          ny, cg, cod + 200, ltv)
            /\ Scenarios.high_rates.cost_of_debt = cod + 200
            /\ ScenarioIs(Scenarios.low_leverage,
                          PlainScenarioKeys \cup {"ltv"},
                          ny, cg, cod, 500)
            /\ Scenarios.low_leverage.ltv = 500

\* a memo of a deal without financing terms (cost of debt 6.5, LTV 0.75) whose
\* base return has a third decimal, so that the reported value is rounded
C14_Witness ==
    /\ MemoReturned
    /\ Scenarios.high_rates.cost_of_debt = DefaultCostOfDebt + RateShift
    /\ Scenarios.base.total_return_levered.ltv = 750
    /\ Scenarios.base.total_return_unlevered * 10
         # Scenarios.base.net_yield + Scenarios.base.capital_gain
    /\ Scenarios.optimistic.total_return_levered.unlevered_return
         = Scenarios.base.total_return_levered.unlevered_return + 1500

\* C15: two runs of generate_memo on the same deal with unchanged tables
\* return identical results.  (Deals whose scores lie on a rounding tie are
\* left out: the side a tie falls to is fixed by the inputs.)
C15_RerunIdentical ==
    [][(/\ out.op = "generate_memo"
        /\ out'.op = "generate_memo"
        /\ out'.deal_id = out.deal_id
        /\ world' = world
        /\ Cardinality(GenerateMemoOutcomes(out.deal_id,
                           world[out.deal_id], now)) = 1)
       => out' = out]_vars

\* required_sections of the integration test
RequiredSections ==
    {"property_summary", "rent_prediction", "tier_classification",
     "yield_analysis", "appreciation_projection", "total_return",
     "risk_assessment", "arbitrage_opportunity",
     "investment_recommendation", "sensitivity_analysis",
     "executive_summary"}

\* a stage after the rent prediction raises during generate_memo
LaterStageRaises(deal) ==
    /\ deal.exists
    /\ deal.stage = "raises"
    /\ deal.failing_section \in 3..11

\* C20: a memo is never partial.  Every memo generate_memo returns has the
\* eleven sections present and filled by the run that returned it (none is
\* the empty dict of the skeleton, the memo is the one of the requested deal
\* and its summary repeats the figures of its own sections); if a stage after
\* the rent prediction raises, the call raises and returns no memo.
C20_MemoNeverPartial ==
    out.op = "generate_memo" =>
        /\ LaterStageRaises(world[out.deal_id])
              => (out.raised # "None" /\ "memo" \notin DOMAIN out)
        /\ out.raised = "None" =>
              /\ ~LaterStageRaises(world[out.deal_id])
              /\ RequiredSections \subseteq DOMAIN out.memo
              /\ \A sec \in RequiredSections : out.memo[sec] # EmptyDict
              /\ out.memo.deal_id = out.deal_id
              /\ out.memo.rent_prediction.predicted_rent * 12
                   = out.memo.yield_analysis.annual_rent
              /\ out.memo.executive_summary.rating_score
                   = out.memo.investment_recommendation.rating_score
              /\ out.memo.executive_summary.risk_score
                   = out.memo.risk_assessment.composite_risk
                        .composite_risk_score

\* a complete memo returned although the hedonic prediction failed
C20_Witness ==
    /\ MemoReturned
    /\ world[out.deal_id].hedonic = "raises"
    /\ DOMAIN out.memo.executive_summary # {}
    /\ DOMAIN out.memo.sensitivity_analysis.scenarios # {}

\* the listed deals whose hedonic prediction failed and whose memo was built
\* from the fallback rent
FallbackDeals ==
    {d \in Listed(out.deal_ids) :
        /\ world[d].exists
        /\ world[d].hedonic = "raises"
        /\ MemoRaises(world[d]) = "None"}

\* C29: a deal whose hedonic prediction failed and whose memo was built from
\* the fallback rent (its rent_prediction holds 'error' and
\* 'fallback_method') counts as valid in generate_comparison_memo: its slot
\* holds the full memo, not an error entry, and it is in all four rankings.
C29_FallbackMemoIsValid ==
    ComparisonReturned =>
        \A d \in FallbackDeals :
            /\ "error" \notin DOMAIN out.deals[d]
            /\ RequiredSections \subseteq DOMAIN out.deals[d]
            /\ "error" \in DOMAIN out.deals[d].rent_prediction
            /\ "fallback_method" \in DOMAIN out.deals[d].rent_prediction
            /\ \E o \in GenerateMemoOutcomes(d, world[d], now) :
                  out.deals[d] = o.memo
            /\ d \in SeqIds(out.rankings.by_total_return)
            /\ d \in SeqIds(out.rankings.by_risk_adjusted_return)
            /\ d \in SeqIds(out.rankings.by_arbitrage_opportunity)
            /\ d \in SeqIds(out.rankings.by_overall_rating)

\* C29 witness: a comparison ranks a fallback-rent memo next to a memo with a
\* hedonic prediction
C29_Witness ==
    /\ ComparisonReturned
    /\ FallbackDeals # {}
    /\ \E d \in FallbackDeals, e \in Listed(out.deal_ids) :
          /\ "fallback_method" \in DOMAIN out.deals[d].rent_prediction
          /\ "error" \notin DOMAIN out.deals[e]
          /\ "error" \notin DOMAIN out.deals[e].rent_prediction
          /\ d \in SeqIds(out.rankings.by_overall_rating)
          /\ e \in SeqIds(out.rankings.by_overall_rating)

(***************************************************************************)
(* DealService.calculate_risk_assessment and the risk_assessments table.   *)
(***************************************************************************)
MaxAssessSteps == 3

RequiredFields == {"square_footage", "bedrooms", "bathrooms"}

\* deals.risk_assessment_id = NULL
NoAssessment == 0

\* deal rows for calculate_risk_assessment: missing_fields are the required
\* fields whose column is NULL or 0; medium_landlord_constraint_score is what
\* assess_medium_landlord_constraints answers for the deal, in tenths
AssessProfiles ==
    {MissingDeal} \cup
    {[missing_fields |-> mf, risk_assessment_id |-> NoAssessment,
      medium_landlord_constraint_score |-> 400] @@
     [base EXCEPT !.hedonic = h.hedonic, !.hedonic_rent = h.hedonic_rent,
                  !.monthly_rent = m, !.stage = f.stage,
                  !.failing_section = f.failing_section, !.year_built = y] :
        base \in {LowRentDeal, ZeroRiskDeal},
        h \in {[hedonic |-> "ok", hedonic_rent |-> 1500],
               [hedonic |-> "raises", hedonic_rent |-> 0]},
        m \in {0, 950},
        f \in {[stage |-> "ok", failing_section |-> 0],
               [stage |-> "raises", failing_section |-> 7]},
        y \in {0, 2000},
        mf \in {{}, {"bedrooms"}, {"square_footage", "bathrooms"}}}

\* the assessment dict compiled after Step 9
Assessment(deal_id, deal, rounded, t) ==
    LET composite_risk ==
            CalculateCompositeRisk(deal.systematic, deal.regulatory,
                deal.idiosyncratic, deal.national_decile, NoClimate, rounded)
    IN  [deal_id |-> deal_id, calculated_at |-> t,
         holding_period |-> HoldingPeriod,
         predicted_fundamental_rent |-> deal.hedonic_rent,
         rent_decile_national |-> deal.national_decile,
         total_return_unlevered |-> deal.total_return_unlevered,
         total_return_levered |-> deal.total_return_levered,
         composite_risk_score |-> composite_risk.composite_risk_score,
         composite_risk_level |-> composite_risk.composite_risk_level,
         medium_landlord_fit_score |->
            1000 - deal.medium_landlord_constraint_score,
         arbitrage_opportunity_score |-> deal.arbitrage_opportunity_score]

\* the pipeline without the check of the required fields
AssessmentOutcomesUnvalidated(deal_id, deal, t) ==
    IF ~deal.exists THEN {[raised |-> "ValueError"]}
    ELSE IF deal.hedonic = "raises" \/ deal.stage = "raises"
    THEN {[raised |-> "ConfigurationError"]}
    ELSE {[raised |-> "None",
           assessment |-> Assessment(deal_id, deal, rounded, t)] :
            rounded \in RoundTenths(MemoCompositeRaw(deal))}

\* Steps 1 to 9: the exception that leaves the method, or the assessment.
\* The hedonic call of Step 2 is not inside a try block
AssessmentOutcomes(deal_id, deal, t) ==
    IF ~deal.exists THEN {[raised |-> "ValueError"]}
    ELSE IF deal.missing_fields \cap RequiredFields # {}
    THEN {[raised |-> "ValueError"]}
    ELSE IF deal.hedonic = "raises" \/ deal.stage = "raises"
    THEN {[raised |-> "ConfigurationError"]}
    ELSE {[raised |-> "None",
           assessment |-> Assessment(deal_id, deal, rounded, t)] :
            rounded \in RoundTenths(MemoCompositeRaw(deal))}

\* the keys of the assessment that the update branch copies to the row
UpdatedColumns ==
    {"predicted_fundamental_rent", "rent_decile_national",
     "total_return_unlevered", "total_return_levered",
     "composite_risk_score", "composite_risk_level",
     "arbitrage_opportunity_score"}

\* a lookup that never finds the record of the deal
ExistingAssessmentNone(rows, deal_id) ==
    {r \in rows : r.deal_id = deal_id /\ r.id > Cardinality(rows)}

\* RiskAssessmentModel.query.filter_by(deal_id=deal_id).first()
ExistingAssessment(rows, deal_id) ==
    {r \in rows : r.deal_id = deal_id}

\* _save_risk_assessment: the table afterwards and the id returned.  The
\* create branch does not pass composite_risk_score to the constructor
SaveRiskAssessment(rows, deal_id, assessment, t) ==
    LET existing == ExistingAssessment(rows, deal_id)
    IN  IF existing # {}
        THEN LET row == CHOOSE r \in existing : \A q \in existing : r.id <= q.id
                 updated ==
                    [c \in DOMAIN row |->
                        IF c \in UpdatedColumns THEN assessment[c]
                        ELSE IF c = "updated_at" THEN t
                        ELSE row[c]]
             IN  [rows |-> (rows \ {row}) \cup {updated}, id |-> row.id,
                  created |-> FALSE]
        ELSE LET id == Cardinality(rows) + 1
             IN  [rows |-> rows \cup
                    {[id |-> id, deal_id |-> deal_id,
                      created_at |-> t, updated_at |-> t,
                      predicted_fundamental_rent |->
                          assessment.predicted_fundamental_rent,
                      rent_decile_national |->
                          assessment.rent_decile_national,
                      total_return_unlevered |->
                          assessment.total_return_unlevered,
                      total_return_levered |->
                          assessment.total_return_levered,
                      composite_risk_score |-> NoScore,
                      composite_risk_level |->
                          assessment.composite_risk_level,
                      medium_landlord_constraint_score |->
                          assessment.medium_landlord_fit_score,
                      arbitrage_opportunity_score |->
                          assessment.arbitrage_opportunity_score]},
                  id |-> id, created |-> TRUE]

\* the rows of the deals other than deal 1
OtherAssessProfiles ==
    {p \in AssessProfiles :
        \/ ~p.exists
        \/ /\ p.hedonic = "ok" /\ p.stage = "ok" /\ p.year_built = 2000
           /\ p.monthly_rent = 950 /\ p.systematic = 345
           /\ p.missing_fields \in {{}, {"bedrooms"}}}

InitAssess ==
    /\ ClimateIdle
    /\ hz = "all"
    /\ risk = [phase |-> "idle"]
    /\ out = [op |-> "none"]
    /\ assessments = {}
    /\ \E p \in AssessProfiles, q \in OtherAssessProfiles :
          world = [d \in DealIds |-> IF d = 1 THEN p ELSE q]

CalculateRiskAssessment(deal_id, save_to_db) ==
    /\ steps < MaxAssessSteps
    /\ steps' = steps + 1
    /\ \E o \in AssessmentOutcomes(deal_id, world[deal_id], now) :
          IF o.raised = "None" /\ save_to_db
          THEN LET saved == SaveRiskAssessment(assessments, deal_id,
                                               o.assessment, now)
               IN  /\ assessments' = saved.rows
                   /\ world' = IF saved.created
                               THEN [world EXCEPT ![deal_id].risk_assessment_id
                                        = saved.id]
                               ELSE world
                   /\ out' = [op |-> "calculate_risk_assessment",
                              deal_id |-> deal_id,
                              save_to_db |-> save_to_db,
                              raised |-> "None",
                              assessment |-> [assessment_id |-> saved.id]
                                             @@ o.assessment]
          ELSE /\ assessments' = assessments
               /\ world' = world
               /\ out' = [op |-> "calculate_risk_assessment",
                          deal_id |-> deal_id, save_to_db |-> save_to_db]
                         @@ o
    /\ UNCHANGED <<cache, nextId, now, last, hz, writers, risk>>

AssessIds == {1, 2}

NextAssess ==
    \/ \E d \in AssessIds, save_to_db \in BOOLEAN :
          CalculateRiskAssessment(d, save_to_db)
    \/ \E days \in {1, DaysPerYear} : Elapse(days)

SpecAssess == InitAssess /\ [][NextAssess]_vars

\* C12: calculate_risk_assessment does not fail on a reference-data miss:
\* when the hedonic model has no coefficient set, the observed rent is used
\* and a complete assessment is returned.
C12_ReferenceMissRecovered ==
    (/\ out.op = "calculate_risk_assessment"
     /\ world[out.deal_id].exists
     /\ world[out.deal_id].missing_fields = {}
     /\ world[out.deal_id].hedonic = "raises"
     /\ world[out.deal_id].stage = "ok")
    => /\ out.raised = "None"
       /\ out.assessment.predicted_fundamental_rent
            = world[out.deal_id].monthly_rent

\* a step that is one call of calculate_risk_assessment
AssessmentCall ==
    /\ steps' = steps + 1
    /\ now' = now
    /\ out'.op = "calculate_risk_assessment"

\* C21: calculate_risk_assessment on a deal that does not exist, or that has
\* no square footage, bedroom count or bathroom count, raises a ValueError
\* before any calculation stage runs (whatever the stages would do), and no
\* risk-assessment record is created or modified, whatever save_to_db is.
C21_ValidationFirst ==
    [][(/\ AssessmentCall
        /\ \/ ~world[out'.deal_id].exists
           \/ world[out'.deal_id].missing_fields # {})
       => /\ out'.raised = "ValueError"
          /\ "assessment" \notin DOMAIN out'
          /\ assessments' = assessments
          /\ world' = world]_vars

\* a deal without bedroom count, whose hedonic prediction would fail as
\* well, was assessed with save_to_db true while the table holds the record
\* of another deal
C21_Witness ==
    /\ out.op = "calculate_risk_assessment"
    /\ out.save_to_db
    /\ out.raised = "ValueError"
    /\ world[out.deal_id].exists
    /\ world[out.deal_id].missing_fields = {"bedrooms"}
    /\ world[out.deal_id].hedonic = "raises"
    /\ \E r \in assessments : r.deal_id # out.deal_id

\* RiskAssessmentModel.to_dict
ToDict(row) ==
    [id |-> row.id, dealId |-> row.deal_id,
     createdAt |-> row.created_at, updatedAt |-> row.updated_at,
     predictedFundamentalRent |-> row.predicted_fundamental_rent,
     rentDecileNational |-> row.rent_decile_national,
     totalReturnUnlevered |-> row.total_return_unlevered,
     totalReturnLevered |-> row.total_return_levered,
     compositeRiskScore |-> row.composite_risk_score,
     compositeRiskLevel |-> row.composite_risk_level,
     mediumLandlordConstraintScore |-> row.medium_landlord_constraint_score,
     arbitrageOpportunityScore |-> row.arbitrage_opportunity_score]

\* get_risk_assessment(deal_id); None is the empty record
GetRiskAssessment(rows, deal_id) ==
    LET found == ExistingAssessment(rows, deal_id)
    IN  IF found = {} THEN [found |-> FALSE]
        ELSE [found |-> TRUE] @@
             ToDict(CHOOSE r \in found : \A q \in found : r.id <= q.id)

\* the last call was calculate_risk_assessment with save_to_db true and it
\* returned an assessment
SavedCall ==
    /\ out.op = "calculate_risk_assessment"
    /\ out.save_to_db
    /\ out.raised = "None"

\* C25: after calculate_risk_assessment(save_to_db=True) the record returned
\* by get_risk_assessment holds the values just computed, in particular the
\* composite risk score and the medium-landlord score, whether the record was
\* created or updated by the call.
C25_StoredEqualsComputed ==
    SavedCall
    => LET stored == GetRiskAssessment(assessments, out.deal_id)
       IN  /\ stored.found
           /\ stored.id = out.assessment.assessment_id
           /\ stored.compositeRiskScore = out.assessment.composite_risk_score
           /\ stored.compositeRiskLevel = out.assessment.composite_risk_level
           /\ stored.mediumLandlordConstraintScore
                = out.assessment.medium_landlord_fit_score
           /\ stored.totalReturnUnlevered
                = out.assessment.total_return_unlevered

\* the stored records of deal d
RecordsOf(rows, d) == {r \in rows : r.deal_id = d}

\* every deal has at most one stored record, and the deal row points to it
OneRecordPerDeal ==
    \A d \in DealIds :
        /\ Cardinality(RecordsOf(assessments, d)) <= 1
        /\ \A r \in RecordsOf(assessments, d) :
              world[d].risk_assessment_id = r.id

\* the step is a calculate_risk_assessment(save_to_db=True) that returned
SavingCall ==
    /\ AssessmentCall
    /\ out'.save_to_db
    /\ out'.raised = "None"

\* the first saving call for a deal adds one record and links the deal to it;
\* a later one rewrites the record of the deal in place and returns its id
CreatedOrUpdatedInPlace ==
    LET d == out'.deal_id
        before == RecordsOf(assessments, d)
        after == RecordsOf(assessments', d)
    IN  /\ Cardinality(after) = 1
        /\ \A r \in after : r.id = out'.assessment.assessment_id
        /\ world'[d].risk_assessment_id = out'.assessment.assessment_id
        /\ assessments' \ after = assessments \ before
        /\ before = {}
           => Cardinality(assessments') = Cardinality(assessments) + 1
        /\ \A b \in before :
              /\ out'.assessment.assessment_id = b.id
              /\ world[d].risk_assessment_id = b.id
              /\ \A r \in after : r.created_at = b.created_at
                                   /\ r.updated_at = now

MaxScore == 1000

InitLevels ==
    /\ ClimateIdle
    /\ hz = "all"
    /\ world = [kind |-> "none"]
    /\ out = [op |-> "none"]
    /\ assessments = {}
    /\ \E score \in 0..MaxScore : risk = [phase |-> "score", score |-> score]

\* the risk level each of the two services derives from the score
BucketScore ==
    /\ risk.phase = "score"
    /\ risk' = [phase |-> "levels", score |-> risk.score,
                climate_risk_level |-> ClimateRiskLevel(risk.score * 100),
                composite_risk_level |-> CompositeRiskLevel(risk.score * 100)]
    /\ UNCHANGED <<climateVars, writers, world, out, assessments>>

NextLevels == BucketScore

SpecLevels == InitLevels /\ [][NextLevels]_vars

\* C17: the composite climate score is bucketed with the thresholds of the
\* main composite risk score: for every score calculate_composite_climate_risk
\* and calculate_composite_risk assign the same risk level.
C17_SameBuckets ==
    risk.phase = "levels"
    => risk.climate_risk_level = risk.composite_risk_level

(***************************************************************************)
(* RiskAssessmentService.calculate_systematic_risk.  Betas are held in     *)
(* thousandths, volatilities in tenths of a percent; 0 stands for a NULL   *)
(* (or 0.0) column, which Python treats as false.                          *)
(***************************************************************************)
Deciles == 1..10

\* RiskBenchmarkData.query.filter_by(...).first(): no row, or a row whose
\* two Float columns are NULL or hold a research figure
NoBenchmark ==
    [present |-> FALSE, systematic_risk_beta |-> 0,
     cash_flow_volatility |-> 0]

BenchmarkRows ==
    {NoBenchmark} \cup
    [present : {TRUE}, systematic_risk_beta : {0, 150, 450, 650, 800},
     cash_flow_volatility : {0, 80, 200, 250}]

\* beta_gdp, in thousandths
BetaGdp(rent_decile, benchmark) ==
    IF benchmark.present /\ benchmark.systematic_risk_beta # 0
    THEN benchmark.systematic_risk_beta
    ELSE 200 + (rent_decile - 1) * 44

\* volatility, in tenths of a percent
Volatility(rent_decile, benchmark) ==
    IF benchmark.present /\ benchmark.cash_flow_volatility # 0
    THEN benchmark.cash_flow_volatility
    ELSE 80 + (rent_decile - 1) * 13

Cyclicality(beta_gdp) ==
    IF beta_gdp < 300 THEN "Low"
    ELSE IF beta_gdp < 450 THEN "Moderate"
    ELSE "High"

\* beta_component + volatility_component = beta/0.70*50 + volatility/20*50,
\* held as 28 times the score: 2 * beta (thousandths) + 7 * volatility (tenths)
SystematicScore28(beta_gdp, volatility) == 2 * beta_gdp + 7 * volatility

\* round(x, 1) of the float near num/den, in tenths; either side at a tie
RoundTenthsOf(num, den) ==
    LET q == (num * 10) \div den
        r == (num * 10) % den
    IN  IF 2 * r < den THEN {q} ELSE IF 2 * r > den THEN {q + 1}
        ELSE {q, q + 1}

SystematicInterpretation(score28) ==
    IF score28 < 35 * 28 THEN "Lower than average"
    ELSE IF score28 < 55 * 28 THEN "Average"
    ELSE "Higher than average"

\* the dicts calculate_systematic_risk can return
CalculateSystematicRisk(rent_decile, benchmark) ==
    LET beta_gdp == BetaGdp(rent_decile, benchmark)
        volatility == Volatility(rent_decile, benchmark)
        score28 == SystematicScore28(beta_gdp, volatility)
    IN  {[cash_flow_cyclicality |-> Cyclicality(beta_gdp),
          systematic_risk_score |-> rounded,
          interpretation |-> SystematicInterpretation(score28)] :
            rounded \in RoundTenthsOf(score28, 28)}

InitSystematic ==
    /\ ClimateIdle
    /\ hz = "all"
    /\ world = [kind |-> "none"]
    /\ out = [op |-> "none"]
    /\ assessments = {}
    /\ \E d \in Deciles, b \in BenchmarkRows :
          risk = [phase |-> "input", rent_decile |-> d, benchmark |-> b]

CalculateSystematic ==
    /\ risk.phase = "input"
    /\ \E result \in CalculateSystematicRisk(risk.rent_decile,
                                             risk.benchmark) :
          risk' = [phase |-> "systematic", rent_decile |-> risk.rent_decile,
                   benchmark |-> risk.benchmark, result |-> result]
    /\ UNCHANGED <<climateVars, writers, world, out, assessments>>

NextSystematic == CalculateSystematic

SpecSystematic == InitSystematic /\ [][NextSystematic]_vars

\* C18: for every rent decile 1..10 and every benchmark row, with the
\* empirical beta and cash-flow volatility present or absent,
\* calculate_systematic_risk returns a systematic_risk_score within 0..100.
C18_SystematicInRange ==
    risk.phase = "systematic"
    => /\ risk.result.systematic_risk_score >= 0
       /\ risk.result.systematic_risk_score <= 1000

(***************************************************************************)
(* RiskAssessmentService.calculate_regulatory_risk.  Points are held in    *)
(* tenths; the renter protection score (0 to 5) in tenths; ami_percentage  *)
(* in tenths of a percent, or NoAmi.  What regulatory_data.json lists for  *)
(* the state and city is an input.                                         *)
(***************************************************************************)
\* ami_percentage = None
NoAmi == -1

PoliticalLists ==
    {"democratic_trifecta", "divided_government", "republican_trifecta"}

UncertaintyLists == {"high_uncertainty", "moderate_uncertainty"}

\* state_listed: the state is in states_with_rent_control; city: no city
\* given, or "<city>, <state>" is or is not in cities_with_rent_control;
\* rps_score: state_scores.get(state, 1.5); political, uncertainty: the
\* lists that name the state
RegulatoryInputs ==
    [state_listed : BOOLEAN, city : {"None", "listed", "unlisted"},
     rps_score : {0, 15, 38, 50},
     political : SUBSET PoliticalLists,
     uncertainty : SUBSET UncertaintyLists,
     ami_percentage : {NoAmi, 0, 300, 500, 501, 800, 801}]

RentControlScore(in) ==
    IF in.city = "listed" THEN 250
    ELSE IF in.state_listed THEN 200
    ELSE 0

HasRentControl(in) == in.state_listed \/ in.city = "listed"

\* (rps_score / 5.0) * 30
RpsRiskScore(rps_score) == rps_score * 6

PoliticalRiskScore(political) ==
    IF "democratic_trifecta" \in political THEN 200
    ELSE IF "divided_government" \in political THEN 100
    ELSE 0

UncertaintyScore(uncertainty) ==
    IF "high_uncertainty" \in uncertainty THEN 150
    ELSE IF "moderate_uncertainty" \in uncertainty THEN 75
    ELSE 0

\* `if ami_percentage:` is false for None and for 0.0
AmiRiskScore(ami_percentage) ==
    IF ami_percentage = NoAmi THEN 0
    ELSE IF ami_percentage = 0 THEN 0
    ELSE IF ami_percentage <= 500 THEN 150
    ELSE IF ami_percentage <= 800 THEN 75
    ELSE 0

\* min(regulatory_risk_score, 100.0)
CapAt(x, cap) == IF x < cap THEN x ELSE cap

RegulatoryInterpretation(score) ==
    IF score < 250 THEN "Low regulatory risk"
    ELSE IF score < 500 THEN "Moderate regulatory risk"
    ELSE IF score < 750 THEN "High regulatory risk"
    ELSE "Very high regulatory risk"

CalculateRegulatoryRisk(in) ==
    LET rent_control_score == RentControlScore(in)
        rps_risk_score == RpsRiskScore(in.rps_score)
        political_risk_score == PoliticalRiskScore(in.political)
        uncertainty_score == UncertaintyScore(in.uncertainty)
        ami_risk_score == AmiRiskScore(in.ami_percentage)
        regulatory_risk_score ==
            CapAt(rent_control_score + rps_risk_score + political_risk_score
                  + uncertainty_score + ami_risk_score, 1000)
    IN  [has_rent_control |-> HasRentControl(in),
         rps_score |-> in.rps_score,
         regulatory_risk_score |-> regulatory_risk_score,
         interpretation |-> RegulatoryInterpretation(regulatory_risk_score),
         components |->
            [rent_control_score |-> rent_control_score,
             rps_risk_score |-> rps_risk_score,
             political_risk_score |-> political_risk_score,
             uncertainty_score |-> uncertainty_score,
             ami_risk_score |-> ami_risk_score]]

InitRegulatory ==
    /\ ClimateIdle
    /\ hz = "all"
    /\ world = [kind |-> "none"]
    /\ out = [op |-> "none"]
    /\ assessments = {}
    /\ \E in \in RegulatoryInputs : risk = [phase |-> "input", in |-> in]

CalculateRegulatory ==
    /\ risk.phase = "input"
    /\ risk' = [phase |-> "regulatory", in |-> risk.in,
                result |-> CalculateRegulatoryRisk(risk.in)]
    /\ UNCHANGED <<climateVars, writers, world, out, assessments>>

NextRegulatory == CalculateRegulatory

SpecRegulatory == InitRegulatory /\ [][NextRegulatory]_vars

\* the AMI points as stated: 15 for a supplied ratio of at most 50%, 7.5 up
\* to 80%, 0 above 80% or when no ratio is supplied
StatedAmiPoints(ami_percentage) ==
    IF ami_percentage = NoAmi THEN 0
    ELSE IF ami_percentage <= 500 THEN 150
    ELSE IF ami_percentage <= 800 THEN 75
    ELSE 0

StatedRentControlPoints(in) ==
    IF in.city = "listed" THEN 250 ELSE IF in.state_listed THEN 200 ELSE 0

\* C19: for every state, city and AMI input the regulatory risk score is
\* min(100, rent control + renter protection + political control + policy
\* uncertainty + AMI points), with rent control 25 for a listed city, else 20
\* for a listed state, else 0; renter protection the 0-5 score rescaled to
\* 0-30; political control in {0, 10, 20}; uncertainty in {0, 7.5, 15}; AMI
\* points 15 / 7.5 / 0 as stated; the score never exceeds 100.
C19_RegulatoryFormula ==
    risk.phase = "regulatory" =>
        LET c == risk.result.components
            sum == StatedRentControlPoints(risk.in) + risk.in.rps_score * 6
                   + c.political_risk_score + c.uncertainty_score
                   + StatedAmiPoints(risk.in.ami_percentage)
        IN  /\ c.political_risk_score \in {0, 100, 200}
            /\ c.uncertainty_score \in {0, 75, 150}
            /\ risk.result.regulatory_risk_score
                 = (IF sum < 1000 THEN sum ELSE 1000)
            /\ risk.result.regulatory_risk_score <= 1000

(***************************************************************************)
(* RiskAssessmentService.calculate_idiosyncratic_risk, in tenths of a      *)
(* point.  None is NoAge for property_age, "None" for property_condition   *)
(* and NoRate for concentration_risk and occupancy_rate (whole percent).   *)
(***************************************************************************)
\* oldest property age sampled
MaxAge == 80

\* concentration_risk=None, occupancy_rate=None
NoRate == -1

\* Age Risk: `if property_age:` is false for None and for 0
AgeRiskScore(property_age) ==
    IF property_age # NoAge /\ property_age # 0
    THEN IF property_age < 10 THEN 20
         ELSE IF property_age < 30 THEN 50
         ELSE IF property_age < 50 THEN 100
         ELSE IF property_age < 75 THEN 150
         ELSE 200
    ELSE 100

\* Condition Risk: condition_map.get(property_condition.lower(), 12.5)
ConditionRiskScore(property_condition) ==
    IF property_condition = "None" THEN 125
    ELSE IF property_condition \in {"excellent", "Excellent"} THEN 0
    ELSE IF property_condition \in {"good", "Good"} THEN 50
    ELSE IF property_condition \in {"fair", "Fair"} THEN 125
    ELSE IF property_condition \in {"poor", "Poor"} THEN 250
    ELSE 125

\* Concentration Risk
ConcentrationRiskScore(concentration_risk, num_units) ==
    IF concentration_risk # NoRate THEN concentration_risk * 3
    ELSE IF num_units = 1 THEN 300
    ELSE IF num_units < 5 THEN 200
    ELSE IF num_units < 10 THEN 100
    ELSE 50

\* Occupancy Risk
OccupancyRiskScore(occupancy_rate) ==
    IF occupancy_rate = NoRate THEN 50
    ELSE IF occupancy_rate >= 95 THEN 0
    ELSE IF occupancy_rate >= 90 THEN 30
    ELSE IF occupancy_rate >= 85 THEN 75
    ELSE IF occupancy_rate >= 75 THEN 120
    ELSE 150

\* Diversification Risk
DiversificationRiskScore(num_units) ==
    IF num_units >= 50 THEN 0
    ELSE IF num_units >= 20 THEN 25
    ELSE IF num_units >= 10 THEN 50
    ELSE IF num_units >= 5 THEN 75
    ELSE 100

\* the dict calculate_idiosyncratic_risk returns
CalculateIdiosyncraticRisk(in) ==
    LET age == AgeRiskScore(in.property_age)
        condition == ConditionRiskScore(in.property_condition)
        concentration == ConcentrationRiskScore(in.concentration_risk,
                                                in.num_units)
        occupancy == OccupancyRiskScore(in.occupancy_rate)
        diversification == DiversificationRiskScore(in.num_units)
        sum == age + condition + concentration + occupancy + diversification
    IN  [age_risk_score |-> age,
         condition_risk_score |-> condition,
         concentration_risk_score |-> concentration,
         occupancy_risk_score |-> occupancy,
         diversification_risk_score |-> diversification,
         idiosyncratic_risk_score |-> CapAt(sum, 1000),
         property_age |-> in.property_age]

IdiosyncraticInputs ==
    [property_age : {NoAge} \cup (0..MaxAge),
     property_condition : {"None", "Good", "poor"},
     num_units : {1, 4, 12},
     concentration_risk : {NoRate, 100},
     occupancy_rate : {NoRate, 90}]

InitIdiosyncratic ==
    /\ ClimateIdle
    /\ hz = "all"
    /\ world = [kind |-> "none"]
    /\ out = [op |-> "none"]
    /\ assessments = {}
    /\ \E in \in IdiosyncraticInputs : risk = [phase |-> "input", in |-> in]

CalculateIdiosyncratic ==
    /\ risk.phase = "input"
    /\ risk' = [phase |-> "idiosyncratic", in |-> risk.in,
                result |-> CalculateIdiosyncraticRisk(risk.in)]
    /\ UNCHANGED <<climateVars, writers, world, out, assessments>>

NextIdiosyncratic == CalculateIdiosyncratic

SpecIdiosyncratic == InitIdiosyncratic /\ [][NextIdiosyncratic]_vars

\* C28: the age component of idiosyncratic risk is non-decreasing in the
\* property age over all known ages >= 0: a property of age 0 (or any known
\* age) never scores higher than an older one.
C28_AgeMonotone ==
    (risk.phase = "idiosyncratic" /\ risk.in.property_age # NoAge)
    => \A older \in risk.in.property_age..MaxAge :
          risk.result.age_risk_score <= AgeRiskScore(older)

(***************************************************************************)
(* DealMemoService._generate_recommendation on sampled inputs: unlevered   *)
(* return in hundredths of a percent, composite risk score and arbitrage   *)
(* score in tenths of a point.                                             *)
(***************************************************************************)
ReturnSamples == {-100, 0, 200, 201, 400, 401, 600, 601, 800, 801, 1200}

RiskScoreSamples == {0, 449, 450, 549, 550, 649, 650, 1000}

ArbitrageSamples == {0, 550, 551, 700, 701, 1000}

RecommendationInputs ==
    [unlevered : ReturnSamples, composite_risk_score : RiskScoreSamples,
     arbitrage_score : ArbitrageSamples]

InitRecommendation ==
    /\ ClimateIdle
    /\ hz = "all"
    /\ world = [kind |-> "none"]
    /\ out = [op |-> "none"]
    /\ assessments = {}
    /\ \E in \in RecommendationInputs : risk = [phase |-> "input", in |-> in]

GenerateRecommendation ==
    /\ risk.phase = "input"
    /\ risk' = [phase |-> "recommendation", in |-> risk.in,
                result |-> Recommendation(risk.in.unlevered,
                                          risk.in.composite_risk_score,
                                          risk.in.arbitrage_score)]
    /\ UNCHANGED <<climateVars, writers, world, out, assessments>>

NextRecommendation == GenerateRecommendation

SpecRecommendation == InitRecommendation /\ [][NextRecommendation]_vars

\* Pass < Consider < Hold < Buy < Strong Buy
RatingRank(rating) ==
    IF rating = "Pass" THEN 1
    ELSE IF rating = "Consider" THEN 2
    ELSE IF rating = "Hold" THEN 3
    ELSE IF rating = "Buy" THEN 4
    ELSE IF rating = "Strong Buy" THEN 5
    ELSE 0

\* the fixed rating score of each rating
StatedRatingScore(rating) ==
    IF rating = "Pass" THEN 30
    ELSE IF rating = "Consider" THEN 45
    ELSE IF rating = "Hold" THEN 60
    ELSE IF rating = "Buy" THEN 75
    ELSE 90

\* C30: the investment rating is monotone: with everything else equal a
\* higher unlevered return, a lower composite risk score or a higher arbitrage
\* score never yields a worse rating (Pass < Consider < Hold < Buy < Strong
\* Buy), and the rating score is the fixed value of the rating
\* (30/45/60/75/90).
C30_RatingMonotone ==
    risk.phase = "recommendation"
    => /\ RatingRank(risk.result.overall_rating) \in 1..5
       /\ risk.result.rating_score
            = StatedRatingScore(risk.result.overall_rating)
       /\ \A better \in RecommendationInputs :
             (/\ better.unlevered >= risk.in.unlevered
              /\ better.composite_risk_score <= risk.in.composite_risk_score
              /\ better.arbitrage_score >= risk.in.arbitrage_score)
             => RatingRank(Recommendation(better.unlevered,
                                better.composite_risk_score,
                                better.arbitrage_score).overall_rating)
                >= RatingRank(risk.result.overall_rating)

\* C30 witness: a deal rated Hold for which a higher arbitrage score alone
\* gives Buy and a higher return on top of it gives Strong Buy
C30_Witness ==
    /\ risk.phase = "recommendation"
    /\ risk.result.overall_rating = "Hold"
    /\ risk.result.rating_score = 60
    /\ Recommendation(risk.in.unlevered, risk.in.composite_risk_score,
                      701).overall_rating = "Buy"
    /\ Recommendation(801, risk.in.composite_risk_score,
                      701).overall_rating = "Strong Buy"

=============================================================================
